---- MODULE Spec2Model ----
(***************************************************************************)
(* A model of the metadata aggregation and value-decoding engine of       *)
(* parqeye: the INT96 timestamp conversion, decode_value, the dictionary  *)
(* page extractor, the schema tree builder, the two versions of           *)
(* aggregate_column_stats and ParquetCtx::from_file.                      *)
(*                                                                        *)
(* Integers wider than 31 bits (u32, i64, u64) are little-endian byte     *)
(* sequences, exactly as they lie in a page buffer; i64 values are in     *)
(* two's complement.  Rust strings are TLA+ strings.                      *)
(***************************************************************************)
EXTENDS Integers, Sequences, FiniteSets, TLC

VARIABLES
    overflow_checks,    \* build profile: TRUE = arithmetic overflow panics, FALSE = wraps
    \* extract_dictionary_values, INT96 branch, one entry at a time
    i_entry,            \* the 12 bytes of the entry (nanos u64 LE, julian_day u32 LE)
    i_out,              \* what the conversion produced
    i_pc,
    \* decode_value, one call
    v_bytes,            \* bytes: &[u8]
    v_physical,         \* physical: PhysicalType
    v_out,              \* the String returned
    v_pc,
    \* extract_dictionary_values(reader, col_idx, max_items), one call
    d_physical_type,      \* the physical type of column col_idx
    d_max_items,
    d_num_row_groups,     \* reader.num_row_groups()
    d_rg_idx,
    d_pages_read,         \* pages the current page reader has handed out
    d_dictionary_values,
    d_stream_error,       \* the reader call that returned Err, "" while none did
    d_page,               \* the page get_next_page() returned last
    d_result,           \* what the call returned
    d_pc,
    \* FileSchema::from_metadata and build_schema_tree_lines, one call
    s_md,               \* the ParquetMetaData of the file
    s_hasher,           \* the order in which the HashSets of the call iterate
    s_schema,           \* the FileSchema from_metadata returned
    s_tree,             \* what build_schema_tree_lines returned
    s_pc,
    \* aggregate_column_stats(md, col_idx, physical), one call of either version
    a_md,               \* the ParquetMetaData, with the chunks of one column
    a_physical,
    a_stats,            \* the ColumnStats returned
    a_pc,
    \* ParquetCtx::from_file(file_path), one call
    p_file_path,
    p_calls,            \* the fallible calls made so far, each with its outcome
    p_locals,           \* the let bindings of the function body
    p_result,           \* what the call returned
    p_pc,
    \* a TabId and the TabManagers of tabs/manager.rs and tabs.rs
    t_tab,              \* the TabId a component holds
    t_manager,          \* the TabManager of tabs/manager.rs
    t_tabs_manager,     \* the TabManager of tabs.rs
    t_calls,            \* the calls made so far, each with the value before and after
    \* App::run (app.rs): the loop of draw and handle_events; the tabs of
    \* schema.rs and row_groups.rs and the events they are handed
    u_app,              \* the App
    u_tab,              \* the SchemaTab or the RowGroupsTab
    u_key,              \* the code of the key event handled last
    u_underflow,        \* an unsigned subtraction or addition of that call left the range of usize
    u_pc,
    \* build_keymap(raw) (config.rs), one call
    k_config,           \* raw.keybindings in the order the HashMap iterates
    k_raw,              \* the entries the for loop has not reached yet
    k_bindings,         \* let mut bindings
    k_keymap,           \* the Keymap returned
    k_pc,
    \* ParquetSampleData::read_sample_data(file_path), one call
    r_schema,           \* builder.schema(): the fields of the arrow schema
    r_batches,          \* the rows of each record batch the reader yields, in order
    r_next,             \* the batch reader.next() yields next
    r_flattened_columns,
    r_all_rows,
    r_total_rows_read,
    r_result,           \* what the call returned
    r_pc

int96Vars == <<i_entry, i_out, i_pc>>

decodeVars == <<v_bytes, v_physical, v_out, v_pc>>

dictVars ==
    <<d_physical_type, d_max_items, d_num_row_groups, d_rg_idx, d_pages_read, d_dictionary_values,
      d_stream_error, d_page, d_result, d_pc>>

schemaVars == <<s_md, s_hasher, s_schema, s_tree, s_pc>>

aggregateVars == <<a_md, a_physical, a_stats, a_pc>>

ctxVars == <<p_file_path, p_calls, p_locals, p_result, p_pc>>

tabsVars == <<t_tab, t_manager, t_tabs_manager, t_calls>>

appVars == <<u_app, u_tab, u_key, u_underflow, u_pc>>

keymapVars == <<k_config, k_raw, k_bindings, k_keymap, k_pc>>

sampleVars ==
    <<r_schema, r_batches, r_next, r_flattened_columns, r_all_rows, r_total_rows_read,
      r_result, r_pc>>

uiVars == <<tabsVars, appVars, keymapVars, sampleVars>>

vars ==
    <<overflow_checks, int96Vars, decodeVars, dictVars, schemaVars, aggregateVars, ctxVars,
      uiVars>>

-----------------------------------------------------------------------------
(* Little-endian byte arithmetic                                           *)

Byte == 0..255

\* the low w bytes of an integer 0 <= n < 2^31, little-endian
BytesOfNat(n, w) ==
    [i \in 1..w |-> IF i = 1 THEN n % 256
                    ELSE IF i = 2 THEN (n \div 256) % 256
                    ELSE IF i = 3 THEN (n \div 65536) % 256
                    ELSE IF i = 4 THEN (n \div 16777216) % 256
                    ELSE 0]

\* zero-extension (u32 as i64, u64 to a wider intermediate)
ZeroExtend(b, w) ==
    [i \in 1..w |-> IF i <= Len(b) THEN b[i] ELSE 0]

IsZeroBytes(b) ==
    \A i \in 1..Len(b) : b[i] = 0

\* the value of a byte sequence known to be below 2^31
RECURSIVE NatOfBytes(_)
NatOfBytes(b) ==
    IF Len(b) = 0 THEN 0
    ELSE b[1] + 256 * NatOfBytes(Tail(b))

FitsInt(b) ==
    \A i \in 1..Len(b) : (i > 4 => b[i] = 0) /\ (i = 4 => b[i] < 128)

\* unsigned comparison of two byte sequences of the same length: decided by
\* the highest byte in which they differ
LessBytes(a, b) ==
    \E top \in 1..Len(a) :
        /\ a[top] < b[top]
        /\ \A j \in (top + 1)..Len(a) : a[j] = b[j]

\* The carry chains below run over the bytes lo..hi by halves, low half first
\* for sums and products, high half first for quotients.

\* the bytes of two adjacent ranges, with the carry out of the upper one
JoinCarry(low, high) ==
    [s |-> low.s \o high.s, c |-> high.c]

\* a + b + carry on the bytes lo..hi: the sum bytes and the carry out
RECURSIVE AddBytesRange(_, _, _, _, _)
RECURSIVE AddBytesUpper(_, _, _, _, _)
AddBytesRange(a, b, lo, hi, carry) ==
    IF lo > hi THEN [s |-> <<>>, c |-> carry]
    ELSE IF lo = hi
    THEN [s |-> <<(a[lo] + b[lo] + carry) % 256>>, c |-> (a[lo] + b[lo] + carry) \div 256]
    ELSE AddBytesUpper(a, b, ((lo + hi) \div 2) + 1, hi,
                       AddBytesRange(a, b, lo, (lo + hi) \div 2, carry))

\* the sum of the lower range, continued over lo..hi
AddBytesUpper(a, b, lo, hi, low) ==
    JoinCarry(low, AddBytesRange(a, b, lo, hi, low.c))

\* the bytes followed by the carry out, as width more bytes
WithCarry(range, width) ==
    range.s \o BytesOfNat(range.c, width)

\* a + b on sequences of the same length; one more byte holds the carry out
AddBytes(a, b) ==
    WithCarry(AddBytesRange(a, b, 1, Len(a), 0), 1)

\* a * k + carry on the bytes lo..hi: the product bytes and the carry out
RECURSIVE MulBytesRange(_, _, _, _, _)
RECURSIVE MulBytesUpper(_, _, _, _, _)
MulBytesRange(a, k, lo, hi, carry) ==
    IF lo > hi THEN [s |-> <<>>, c |-> carry]
    ELSE IF lo = hi
    THEN [s |-> <<(a[lo] * k + carry) % 256>>, c |-> (a[lo] * k + carry) \div 256]
    ELSE MulBytesUpper(a, k, ((lo + hi) \div 2) + 1, hi,
                       MulBytesRange(a, k, lo, (lo + hi) \div 2, carry))

\* the product of the lower range, continued over lo..hi
MulBytesUpper(a, k, lo, hi, low) ==
    JoinCarry(low, MulBytesRange(a, k, lo, hi, low.c))

\* a * k for a small factor k (k < 2^23); four more bytes hold the carry out
MulBytes(a, k) ==
    WithCarry(MulBytesRange(a, k, 1, Len(a), 0), 4)

\* a * f[1] * ... * f[n], widened so that nothing is lost
RECURSIVE MulBytesAll(_, _)
MulBytesAll(a, f) ==
    IF Len(f) = 0 THEN a
    ELSE MulBytesAll(MulBytes(a, Head(f)), Tail(f))

\* the quotient bytes of two adjacent ranges, with the remainder of the lower
JoinRem(low, high) ==
    [q |-> low.q \o high.q, r |-> low.r]

\* (rem * 256^(hi-lo+1) + a[lo..hi]) divided by d: quotient bytes and remainder
RECURSIVE DivBytesRange(_, _, _, _, _)
RECURSIVE DivBytesLower(_, _, _, _, _)
DivBytesRange(a, d, lo, hi, rem) ==
    IF lo > hi THEN [q |-> <<>>, r |-> rem]
    ELSE IF lo = hi
    THEN [q |-> <<(rem * 256 + a[lo]) \div d>>, r |-> (rem * 256 + a[lo]) % d]
    ELSE DivBytesLower(a, d, lo, (lo + hi) \div 2,
                       DivBytesRange(a, d, ((lo + hi) \div 2) + 1, hi, rem))

\* the quotient of the upper range, continued over lo..hi with its remainder
\* (which is below d)
DivBytesLower(a, d, lo, hi, high) ==
    IF high.r < d THEN JoinRem(DivBytesRange(a, d, lo, hi, high.r), high)
    ELSE high

\* a divided by a small divisor d (d < 2^23): quotient bytes and remainder
DivBytes(a, d) ==
    DivBytesRange(a, d, 1, Len(a), 0)

\* two's complement negation at the width of b
NegBytes(b) ==
    SubSeq(AddBytes([i \in 1..Len(b) |-> 255 - b[i]], BytesOfNat(1, Len(b))), 1, Len(b))

-----------------------------------------------------------------------------
(* Decimal rendering (Display for integers)                                *)

DigitChar == <<"0", "1", "2", "3", "4", "5", "6", "7", "8", "9">>

RECURSIVE NatToString(_)
NatToString(n) ==
    IF n < 10 THEN DigitChar[n + 1]
    ELSE NatToString(n \div 10) \o DigitChar[(n % 10) + 1]

\* n rendered with at least w digits, zero padded ({:0w})
RECURSIVE ZeroPad(_, _)
ZeroPad(n, w) ==
    IF w <= 1 THEN NatToString(n)
    ELSE IF n < 10 THEN "0" \o ZeroPad(n, w - 1)
    ELSE ZeroPad(n \div 10, w - 1) \o DigitChar[(n % 10) + 1]

\* b without its high zero bytes
TrimBytes(b) ==
    IF IsZeroBytes(b) THEN <<0>>
    ELSE SubSeq(b, 1, CHOOSE i \in 1..Len(b) :
                          b[i] # 0 /\ \A j \in (i + 1)..Len(b) : b[j] = 0)

\* an unsigned byte sequence of any width in decimal, six digits at a time
RECURSIVE UnsignedToString(_)
RECURSIVE UnsignedChunks(_)
UnsignedToString(b) ==
    UnsignedChunks(DivBytes(TrimBytes(b), 1000000))

\* the digits of low.q * 10^6 + low.r
UnsignedChunks(low) ==
    IF IsZeroBytes(low.q) THEN NatToString(low.r)
    ELSE UnsignedToString(low.q) \o ZeroPad(low.r, 6)

-----------------------------------------------------------------------------
(* i64 arithmetic.  A computed value carries whether an operation on the   *)
(* way to it overflowed, and the panic message of the first one that did:  *)
(* with overflow checks the program panics there, without them it goes on  *)
(* with the result wrapped modulo 2^64.                                    *)

IsNegI64(x) ==
    x[Len(x)] >= 128

\* the magnitude of an i64 as an unsigned 64-bit value (|i64::MIN| = 2^63)
AbsI64(x) ==
    IF IsNegI64(x) THEN NegBytes(x) ELSE x

I64FromInt(n) ==
    IF n < 0 THEN NegBytes(BytesOfNat(-n, 8)) ELSE BytesOfNat(n, 8)

\* a value that no arithmetic has produced yet
Exact(val) ==
    [val |-> val, ovf |-> FALSE, panic |-> ""]

\* the result val of an operation on x that overflowed or not
Outcome(x, val, overflowed, message) ==
    [val   |-> val,
     ovf   |-> x.ovf \/ overflowed,
     panic |-> IF x.ovf THEN x.panic ELSE IF overflowed THEN message ELSE ""]

SubOutcome(x, b, val) ==
    Outcome(x, val, IsNegI64(x.val) # IsNegI64(b) /\ IsNegI64(val) # IsNegI64(x.val),
            "attempt to subtract with overflow")

\* x - b
I64Sub(x, b) ==
    SubOutcome(x, b, SubSeq(AddBytes(x.val, NegBytes(b)), 1, 8))

AddOutcome(x, b, val) ==
    Outcome(x, val, IsNegI64(x.val) = IsNegI64(b) /\ IsNegI64(val) # IsNegI64(x.val),
            "attempt to add with overflow")

\* x + b
I64Add(x, b) ==
    AddOutcome(x, b, SubSeq(AddBytes(x.val, b), 1, 8))

\* the product of magnitude mag, with the sign of x
MulOutcome(x, mag) ==
    Outcome(x,
            IF IsNegI64(x.val) THEN NegBytes(SubSeq(mag, 1, 8)) ELSE SubSeq(mag, 1, 8),
            ~ /\ IsZeroBytes(SubSeq(mag, 9, Len(mag)))
              /\ \/ mag[8] < 128
                 \/ IsNegI64(x.val) /\ mag[8] = 128 /\ IsZeroBytes(SubSeq(mag, 1, 7)),
            "attempt to multiply with overflow")

\* x times the positive constant f[1] * ... * f[n], as one multiplication
I64Mul(x, f) ==
    MulOutcome(x, MulBytesAll(AbsI64(x.val), f))

\* a division by head followed by one by more: the remainder of both
JoinDivisions(step, head, rest) ==
    [q |-> rest.q, r |-> step.r + head * rest.r]

\* the quotient and remainder by Head(f) * ... after the division by Head(f)
RECURSIVE DivBytesAll(_, _)
RECURSIVE DivBytesRest(_, _)
DivBytesRest(step, f) ==
    JoinDivisions(step, Head(f), DivBytesAll(step.q, Tail(f)))

\* a divided by f[1] * ... * f[n]: quotient bytes and remainder (below 2^31)
DivBytesAll(a, f) ==
    IF Len(f) = 0 THEN [q |-> a, r |-> 0]
    ELSE DivBytesRest(DivBytes(a, Head(f)), f)

\* quotient and remainder of magnitudes d, with the sign of a
SignedDivRem(a, d) ==
    [quot |-> IF IsNegI64(a) THEN NegBytes(d.q) ELSE d.q,
     rem  |-> IF IsNegI64(a) THEN I64FromInt(-d.r) ELSE I64FromInt(d.r)]

\* Rust's / and % on i64 by a positive constant: truncation toward zero, the
\* remainder has the sign of the dividend
I64DivRem(a, f) ==
    SignedDivRem(a, DivBytesAll(AbsI64(a), f))

I64ToString(x) ==
    IF IsNegI64(x) THEN "-" \o UnsignedToString(AbsI64(x))
    ELSE UnsignedToString(x)

-----------------------------------------------------------------------------
(* Strings from bytes: hex rendering and UTF-8                             *)

HexDigit ==
    <<"0", "1", "2", "3", "4", "5", "6", "7", "8", "9", "A", "B", "C", "D", "E", "F">>

\* format!("{b:02X}")
HexByte(b) ==
    HexDigit[(b \div 16) + 1] \o HexDigit[(b % 16) + 1]

\* bytes.iter().map(|b| format!("{b:02X}")).collect::<Vec<_>>().join(sep)
RECURSIVE HexJoin(_, _)
HexJoin(bytes, sep) ==
    IF Len(bytes) = 0 THEN ""
    ELSE IF Len(bytes) = 1 THEN HexByte(bytes[1])
    ELSE HexByte(bytes[1]) \o sep \o HexJoin(Tail(bytes), sep)

\* the length of the UTF-8 sequence a lead byte announces, 0 for no lead byte
Utf8Width(b) ==
    IF b < 128 THEN 1
    ELSE IF b \in 194..223 THEN 2
    ELSE IF b \in 224..239 THEN 3
    ELSE IF b \in 240..244 THEN 4
    ELSE 0

\* the continuation bytes of the sequence of width w at position i are well formed
Utf8TailOk(bytes, i, w) ==
    LET lead   == bytes[i]
        second == IF lead = 224 THEN 160..191
                  ELSE IF lead = 237 THEN 128..159
                  ELSE IF lead = 240 THEN 144..191
                  ELSE IF lead = 244 THEN 128..143
                  ELSE 128..191
    IN  /\ w >= 2 => bytes[i + 1] \in second
        /\ \A k \in 2..(w - 1) : bytes[i + k] \in 128..191

\* std::str::from_utf8(bytes).is_ok()
RECURSIVE Utf8ValidFrom(_, _)
Utf8ValidFrom(bytes, i) ==
    IF i > Len(bytes) THEN TRUE
    ELSE LET w == Utf8Width(bytes[i])
         IN  /\ w # 0
             /\ i + w - 1 <= Len(bytes)
             /\ Utf8TailOk(bytes, i, w)
             /\ Utf8ValidFrom(bytes, i + w)

Utf8Valid(bytes) ==
    Utf8ValidFrom(bytes, 1)

\* the scalar value of the well-formed sequence of width w at position i
Utf8Scalar(bytes, i, w) ==
    IF w = 1 THEN bytes[i]
    ELSE IF w = 2 THEN (bytes[i] - 192) * 64 + (bytes[i + 1] - 128)
    ELSE IF w = 3 THEN (bytes[i] - 224) * 4096 + (bytes[i + 1] - 128) * 64
                       + (bytes[i + 2] - 128)
    ELSE (bytes[i] - 240) * 262144 + (bytes[i + 1] - 128) * 4096
         + (bytes[i + 2] - 128) * 64 + (bytes[i + 3] - 128)

PrintableAscii ==
    <<" ", "!", "\"", "#", "$", "%", "&", "'", "(", ")", "*", "+", ",", "-", ".", "/",
       "0", "1", "2", "3", "4", "5", "6", "7", "8", "9", ":", ";", "<", "=", ">", "?",
       "@", "A", "B", "C", "D", "E", "F", "G", "H", "I", "J", "K", "L", "M", "N", "O",
       "P", "Q", "R", "S", "T", "U", "V", "W", "X", "Y", "Z", "[", "\\", "]", "^", "_",
       "\\u{60}", "a", "b", "c", "d", "e", "f", "g", "h", "i", "j", "k", "l", "m", "n", "o",
       "p", "q", "r", "s", "t", "u", "v", "w", "x", "y", "z", "{", "|", "}", "~">>

RECURSIVE HexLower(_)
HexLower(n) ==
    LET digit == <<"0", "1", "2", "3", "4", "5", "6", "7", "8", "9",
                   "a", "b", "c", "d", "e", "f">>
    IN  IF n < 16 THEN digit[n + 1]
        ELSE HexLower(n \div 16) \o digit[(n % 16) + 1]

\* one char of a String; a char outside printable ASCII, and the backquote, is
\* written \u{hex}
CharText(scalar) ==
    IF scalar \in 32..126 THEN PrintableAscii[scalar - 31]
    ELSE "\\u{" \o HexLower(scalar) \o "}"

\* the String of well-formed UTF-8 bytes (s.to_string())
RECURSIVE Utf8TextFrom(_, _)
Utf8TextFrom(bytes, i) ==
    IF i > Len(bytes) THEN ""
    ELSE LET w == Utf8Width(bytes[i])
         IN  CharText(Utf8Scalar(bytes, i, w)) \o Utf8TextFrom(bytes, i + w)

Utf8Text(bytes) ==
    Utf8TextFrom(bytes, 1)

-----------------------------------------------------------------------------
(* Display of f32 and f64 with a fixed number of decimals ({:.N}): the     *)
(* exact value sig * 2^e2, rounded half to even at the last decimal        *)

PowerOfTwo(k) ==
    <<1, 2, 4, 8, 16, 32, 64, 128>>[k + 1]

\* 10^prec, for the precisions the program formats with
PowerOfTen(prec) ==
    <<1, 10, 100, 1000, 10000, 100000, 1000000>>[prec + 1]

ShiftLeft(b, n) ==
    [i \in 1..(n \div 8) |-> 0] \o MulBytes(b, PowerOfTwo(n % 8))

\* the quotient of a shift, and whether a non-zero bit was dropped
WithSticky(part, dropped) ==
    [val |-> part.q, sticky |-> dropped \/ part.r # 0]

\* b shifted right by n bits, and whether a non-zero bit was dropped
ShiftRight(b, n) ==
    IF n \div 8 >= Len(b) THEN [val |-> <<0>>, sticky |-> ~IsZeroBytes(b)]
    ELSE WithSticky(DivBytes(SubSeq(b, (n \div 8) + 1, Len(b)), PowerOfTwo(n % 8)),
                    ~IsZeroBytes(SubSeq(b, 1, n \div 8)))

\* half of a value, up when the dropped part is above a half, or is a half and
\* the result would be odd
RoundUp(half, sticky) ==
    IF half.r = 1 /\ (sticky \/ half.q[1] % 2 = 1)
    THEN AddBytes(half.q, BytesOfNat(1, Len(half.q)))
    ELSE half.q

RoundHalfEven(most) ==
    RoundUp(DivBytes(most.val, 2), most.sticky)

\* b / 2^n rounded to the nearest integer, ties to even (n >= 1)
RoundShift(b, n) ==
    RoundHalfEven(ShiftRight(b, n - 1))

\* sign, integer part, point and the prec decimals
FixedText(neg, parts, prec) ==
    (IF neg THEN "-" ELSE "") \o UnsignedToString(parts.q)
    \o (IF prec > 0 THEN "." \o ZeroPad(parts.r, prec) ELSE "")

\* the finite value (-1)^neg * sig * 2^e2 with prec decimals
FormatFixed(neg, sig, e2, prec) ==
    FixedText(neg,
              IF e2 >= 0 THEN [q |-> ShiftLeft(sig, e2), r |-> 0]
              ELSE DivBytes(RoundShift(MulBytes(sig, PowerOfTen(prec)), -e2),
                            PowerOfTen(prec)),
              prec)

\* format!("{:.prec}", f32::from_le_bytes(b))
FormatF32(b, prec) ==
    LET neg == b[4] >= 128
        ex  == (b[4] % 128) * 2 + (b[3] \div 128)
        man == <<b[1], b[2], b[3] % 128, 0>>
    IN  IF ex = 255 THEN (IF ~IsZeroBytes(man) THEN "NaN" ELSE IF neg THEN "-inf" ELSE "inf")
        ELSE IF ex = 0 THEN FormatFixed(neg, man, -149, prec)
        ELSE FormatFixed(neg, <<b[1], b[2], (b[3] % 128) + 128, 0>>, ex - 150, prec)

\* format!("{:.prec}", f64::from_le_bytes(b))
FormatF64(b, prec) ==
    LET neg == b[8] >= 128
        ex  == (b[8] % 128) * 16 + (b[7] \div 16)
        man == <<b[1], b[2], b[3], b[4], b[5], b[6], b[7] % 16, 0>>
    IN  IF ex = 2047 THEN (IF ~IsZeroBytes(man) THEN "NaN" ELSE IF neg THEN "-inf" ELSE "inf")
        ELSE IF ex = 0 THEN FormatFixed(neg, man, -1074, prec)
        ELSE FormatFixed(neg, <<b[1], b[2], b[3], b[4], b[5], b[6], (b[7] % 16) + 16, 0>>,
                         ex - 1075, prec)

-----------------------------------------------------------------------------
(* decode_value                                                            *)

PhysicalType ==
    {"BOOLEAN", "INT32", "INT64", "INT96", "FLOAT", "DOUBLE", "BYTE_ARRAY",
     "FIXED_LEN_BYTE_ARRAY"}

\* the variant that reads the four bytes as an unsigned value
I32ToStringUnsigned(b) ==
    I64ToString([i \in 1..8 |-> IF i <= 4 THEN b[i] ELSE 0])

\* i32::from_le_bytes(b).to_string()
I32ToString(b) ==
    I64ToString([i \in 1..8 |-> IF i <= 4 THEN b[i] ELSE IF b[4] >= 128 THEN 255 ELSE 0])

\* bytes.try_into(): a slice becomes an array of n bytes when its length is n
TryInto(bytes, n) ==
    IF Len(bytes) = n THEN [ok |-> TRUE, val |-> bytes] ELSE [ok |-> FALSE, val |-> <<>>]

\* a call that returned the String s
Returned(s) ==
    [ok |-> TRUE, text |-> s]

\* a call that panicked in Result::unwrap
UnwrapPanic ==
    [ok |-> FALSE, text |-> "called Result::unwrap() on an Err value"]

\* the variant that renders undecodable bytes the way the dictionary
\* extractor does: "0x" and the first eight bytes
decode_value_prefixed(bytes, physical) ==
    IF physical = "INT32" /\ Len(bytes) = 4 THEN Returned(I32ToString(bytes))
    ELSE IF physical = "INT64" /\ Len(bytes) = 8 THEN Returned(I64ToString(bytes))
    ELSE IF physical = "FLOAT" /\ Len(bytes) = 4 THEN Returned(FormatF32(bytes, 4))
    ELSE IF physical = "DOUBLE" /\ Len(bytes) = 8 THEN Returned(FormatF64(bytes, 4))
    ELSE IF physical \in {"BYTE_ARRAY", "FIXED_LEN_BYTE_ARRAY"} /\ Utf8Valid(bytes)
    THEN Returned(Utf8Text(bytes))
    ELSE Returned("0x" \o HexJoin(SubSeq(bytes, 1, IF Len(bytes) < 8 THEN Len(bytes) ELSE 8), ""))

\* decode_value(bytes, physical): the String returned, or the panic of an
\* unwrap on a slice of the wrong length
decode_value(bytes, physical) ==
    LET four  == TryInto(bytes, 4)
        eight == TryInto(bytes, 8)
    IN  IF physical = "INT32" /\ Len(bytes) = 4
        THEN (IF four.ok THEN Returned(I32ToString(four.val)) ELSE UnwrapPanic)
        ELSE IF physical = "INT64" /\ Len(bytes) = 8
        THEN (IF eight.ok THEN Returned(I64ToString(eight.val)) ELSE UnwrapPanic)
        ELSE IF physical = "FLOAT" /\ Len(bytes) = 4
        THEN (IF four.ok THEN Returned(FormatF32(four.val, 4)) ELSE UnwrapPanic)
        ELSE IF physical = "DOUBLE" /\ Len(bytes) = 8
        THEN (IF eight.ok THEN Returned(FormatF64(eight.val, 4)) ELSE UnwrapPanic)
        ELSE IF physical \in {"BYTE_ARRAY", "FIXED_LEN_BYTE_ARRAY"}
        THEN (IF Utf8Valid(bytes) THEN Returned(Utf8Text(bytes))
              ELSE Returned(HexJoin(bytes, "")))
        ELSE Returned(HexJoin(bytes, ""))

-----------------------------------------------------------------------------
(* chrono: DateTime::from_timestamp and its strftime rendering             *)

\* proleptic Gregorian date of a day count relative to 1970-01-01
CivilFromDays(days) ==
    LET z   == days + 719468
        era == z \div 146097
        doe == z % 146097
        yoe == (doe - doe \div 1460 + doe \div 36524 - doe \div 146096) \div 365
        doy == doe - (365 * yoe + yoe \div 4 - yoe \div 100)
        mp  == (5 * doy + 2) \div 153
        d   == doy - (153 * mp + 2) \div 5 + 1
        m   == IF mp < 10 THEN mp + 3 ELSE mp - 9
        y   == yoe + era * 400 + (IF m <= 2 THEN 1 ELSE 0)
    IN  [year |-> y, month |-> m, day |-> d]

\* NaiveDate::from_num_days_from_ce_opt and
\* NaiveTime::from_num_seconds_from_midnight_opt: None when the year is out of
\* range, or when nsecs >= 1_000_000_000 outside a second 59 (the leap second
\* representation)
DateAndTime(days, sod, ns) ==
    IF CivilFromDays(days).year \notin -262143..262142 THEN [some |-> FALSE]
    ELSE IF ns >= 1000000000 /\ sod % 60 # 59 THEN [some |-> FALSE]
    ELSE [some |-> TRUE, days |-> days, sod |-> sod, nsecs |-> ns]

\* secs.div_euclid(86_400) and secs.rem_euclid(86_400) from the quotient and
\* remainder d of |secs|; None when the day count is far out of range or
\* nsecs >= 2_000_000_000
FromDayAndSecond(neg, d, nsecs) ==
    IF ~(FitsInt(d.q) /\ LessBytes(d.q, BytesOfNat(100000000, Len(d.q))))
       \/ ~LessBytes(nsecs, BytesOfNat(2000000000, 4))
    THEN [some |-> FALSE]
    ELSE DateAndTime(IF ~neg THEN NatOfBytes(SubSeq(d.q, 1, 4))
                     ELSE IF d.r = 0 THEN -NatOfBytes(SubSeq(d.q, 1, 4))
                     ELSE -(NatOfBytes(SubSeq(d.q, 1, 4)) + 1),
                     IF ~neg \/ d.r = 0 THEN d.r ELSE 86400 - d.r,
                     NatOfBytes(nsecs))

\* DateTime::from_timestamp(secs, nsecs)
FromTimestamp(secs, nsecs) ==
    FromDayAndSecond(IsNegI64(secs), DivBytes(AbsI64(secs), 86400), nsecs)

\* %Y: four digits for 0..9999, otherwise signed
FormatYear(y) ==
    IF y \in 0..9999 THEN ZeroPad(y, 4)
    ELSE IF y < 0 THEN "-" \o ZeroPad(-y, 4)
    ELSE "+" \o ZeroPad(y, 4)

\* datetime.format("%Y-%m-%d %H:%M:%S%.9f UTC")
FormatDateTime(dt) ==
    LET c    == CivilFromDays(dt.days)
        leap == IF dt.nsecs >= 1000000000 THEN 1 ELSE 0
    IN  FormatYear(c.year) \o "-" \o ZeroPad(c.month, 2) \o "-" \o ZeroPad(c.day, 2)
        \o " " \o ZeroPad(dt.sod \div 3600, 2)
        \o ":" \o ZeroPad((dt.sod \div 60) % 60, 2)
        \o ":" \o ZeroPad((dt.sod % 60) + leap, 2)
        \o "." \o ZeroPad(dt.nsecs % 1000000000, 9) \o " UTC"

-----------------------------------------------------------------------------
(* extract_dictionary_values, INT96 branch                                 *)

JULIAN_DAY_OF_EPOCH == 2440588

DaysSinceEpochMut(julian_day) ==
    I64Sub(Exact(ZeroExtend(julian_day, 8)), I64FromInt(JULIAN_DAY_OF_EPOCH - 1))

\* julian_day as i64 - JULIAN_DAY_OF_EPOCH
DaysSinceEpoch(julian_day) ==
    I64Sub(Exact(ZeroExtend(julian_day, 8)), I64FromInt(JULIAN_DAY_OF_EPOCH))

\* days_since_epoch * 24 * 60 * 60
SecondsSinceEpoch(julian_day) ==
    I64Mul(I64Mul(I64Mul(DaysSinceEpoch(julian_day), <<24>>), <<60>>), <<60>>)

\* seconds_since_epoch * 1_000_000_000 + nanos as i64
TotalNanos(nanos, julian_day) ==
    I64Add(I64Mul(SecondsSinceEpoch(julian_day), <<1000, 1000, 1000>>), nanos)

\* format!("INT96(nanos={}, julian_day={})", nanos, julian_day)
Int96Raw(nanos, julian_day) ==
    "INT96(nanos=" \o UnsignedToString(nanos) \o ", julian_day="
        \o UnsignedToString(julian_day) \o ")"

\* the string pushed for the entry, from what from_timestamp returned
Int96Pushed(nanos, julian_day, total, dr, datetime) ==
    [kind |-> IF datetime.some THEN "timestamp" ELSE "raw",
     text |-> IF datetime.some THEN FormatDateTime(datetime) ELSE Int96Raw(nanos, julian_day),
     overflow |-> total.ovf, secs |-> dr.quot, nanos |-> dr.rem]

\* timestamp_secs and timestamp_nanos, and from_timestamp on them with
\* timestamp_nanos as u32
Int96Timestamp(nanos, julian_day, total, dr) ==
    Int96Pushed(nanos, julian_day, total, dr, FromTimestamp(dr.quot, SubSeq(dr.rem, 1, 4)))

\* the loop body once total_nanos is computed: a panic when an operation
\* overflowed under overflow checks
Int96FromTotal(nanos, julian_day, total, checks) ==
    IF total.ovf /\ checks
    THEN [kind |-> "panic", text |-> total.panic, overflow |-> TRUE,
          secs |-> <<>>, nanos |-> <<>>]
    ELSE Int96Timestamp(nanos, julian_day, total,
                        I64DivRem(total.val, <<1000, 1000, 1000>>))

\* The conversion of one 12-byte entry.  kind is "panic" when an arithmetic
\* overflow is caught, "timestamp" or "raw" otherwise; overflow tells whether
\* any of the operations left the i64 range; secs and nanos are the locals
\* timestamp_secs and timestamp_nanos.
Int96Convert(entry, checks) ==
    Int96FromTotal(SubSeq(entry, 1, 8), SubSeq(entry, 9, 12),
                   TotalNanos(SubSeq(entry, 1, 8), SubSeq(entry, 9, 12)), checks)

-----------------------------------------------------------------------------
(* extract_dictionary_values: one dictionary page                          *)

\* the first n elements of a sequence (iter().take(n))
Take(seq, n) ==
    SubSeq(seq, 1, IF Len(seq) < n THEN Len(seq) ELSE n)

Min(a, b) ==
    IF a < b THEN a ELSE b

\* what processing a page leaves: the list, or a panic that unwinds the call
Pushed(values) ==
    [panic |-> FALSE, values |-> values]

\* BYTE_ARRAY: the loop over [length:4][data:length] entries from offset on,
\* with iters iterations left.  usize has 64 bits, so offset + length cannot
\* overflow; a length that does not fit the buffer ends the loop.
RECURSIVE ByteArrayLoop(_, _, _, _, _)
RECURSIVE ByteArrayNext(_, _, _, _, _)
ByteArrayLoop(buffer_slice, offset, iters, dictionary_values, max_items) ==
    IF iters = 0 \/ offset + 4 > Len(buffer_slice) THEN dictionary_values
    ELSE LET lengthBytes == SubSeq(buffer_slice, offset + 1, offset + 4)
             room        == Len(buffer_slice) - (offset + 4)
         IN  IF ~FitsInt(lengthBytes) \/ NatOfBytes(lengthBytes) > room
             THEN dictionary_values
             ELSE LET length      == NatOfBytes(lengthBytes)
                      string_data == SubSeq(buffer_slice, offset + 5, offset + 4 + length)
                      item        == IF Utf8Valid(string_data) THEN Utf8Text(string_data)
                                     ELSE "0x" \o HexJoin(Take(string_data, 8), "")
                  IN  ByteArrayNext(buffer_slice, offset + 4 + length, iters - 1,
                                    Append(dictionary_values, item), max_items)

\* after a push: the break when max_items is reached, or the next iteration
ByteArrayNext(buffer_slice, offset, iters, dictionary_values, max_items) ==
    IF Len(dictionary_values) >= max_items THEN dictionary_values
    ELSE ByteArrayLoop(buffer_slice, offset, iters, dictionary_values, max_items)

\* the variant that decodes nothing of a buffer with a trailing partial stride
MaxValsWhole(buffer_slice, width, num_values, max_items) ==
    IF Len(buffer_slice) % width # 0 THEN 0
    ELSE Min(Min(Len(buffer_slice) \div width, num_values), max_items)

\* (buffer_slice.len() / width).min(num_values).min(max_items)
MaxVals(buffer_slice, width, num_values, max_items) ==
    Min(Min(Len(buffer_slice) \div width, num_values), max_items)

\* the i-th entry (from 0) of a buffer of fixed-width entries
EntryAt(buffer_slice, width, i) ==
    SubSeq(buffer_slice, (i * width) + 1, (i * width) + width)

\* the strings the INT32, INT64, FLOAT and DOUBLE loops push for one page
FixedWidthItems(buffer_slice, physical_type, num_values, max_items) ==
    LET width    == IF physical_type \in {"INT32", "FLOAT"} THEN 4 ELSE 8
        max_vals == MaxVals(buffer_slice, width, num_values, max_items)
        item(e)  == IF physical_type = "INT32" THEN I32ToString(e)
                    ELSE IF physical_type = "INT64" THEN I64ToString(e)
                    ELSE IF physical_type = "FLOAT" THEN FormatF32(e, 6)
                    ELSE FormatF64(e, 6)
    IN  [i \in 1..max_vals |-> item(EntryAt(buffer_slice, width, i - 1))]

\* the INT96 loop for one page: the conversions of its entries
Int96Items(buffer_slice, num_values, max_items, checks) ==
    [i \in 1..MaxVals(buffer_slice, 12, num_values, max_items) |->
        Int96Convert(EntryAt(buffer_slice, 12, i - 1), checks)]

\* the INT96 loop: a panic in one conversion unwinds the call
Int96Pushes(dictionary_values, outs) ==
    IF \E i \in DOMAIN outs : outs[i].kind = "panic"
    THEN [panic |-> TRUE, values |-> <<>>]
    ELSE Pushed(dictionary_values \o [i \in DOMAIN outs |-> outs[i].text])

\* format!("Binary({}): {}", physical_type, hex_preview)
BinaryPreview(page_buffer, physical_type) ==
    "Binary(" \o physical_type \o "): " \o HexJoin(Take(page_buffer, 32), " ")

\* the match on physical_type for one dictionary page
ProcessDictionaryPage(dictionary_values, page, physical_type, max_items, checks) ==
    IF physical_type = "BYTE_ARRAY"
    THEN Pushed(ByteArrayLoop(page.buffer, 0, Min(page.num_values, max_items),
                              dictionary_values, max_items))
    ELSE IF physical_type \in {"INT32", "INT64", "FLOAT", "DOUBLE"}
    THEN Pushed(dictionary_values
                \o FixedWidthItems(page.buffer, physical_type, page.num_values, max_items))
    ELSE IF physical_type = "INT96"
    THEN Int96Pushes(dictionary_values,
                     Int96Items(page.buffer, page.num_values, max_items, checks))
    ELSE Pushed(Append(dictionary_values, BinaryPreview(page.buffer, physical_type)))

-----------------------------------------------------------------------------
(* The INT96 entries the conversion is run on                              *)

\* julian days and nanosecond counts are taken within this distance of the
\* interesting points
Window == 1

U64Max == [i \in 1..8 |-> 255]

I64Max == [i \in 1..8 |-> IF i = 8 THEN 127 ELSE 255]

\* the last day count d for which d * 86400 * 10^9 is below 2^63
LastDayInRange ==
    NatOfBytes(SubSeq(DivBytes(DivBytesAll(I64Max, <<1000, 1000, 1000>>).q, 86400).q, 1, 4))

\* 86400 * 10^9, the nanoseconds of a day
NanosPerDay ==
    SubSeq(MulBytesAll(BytesOfNat(86400, 8), <<1000, 1000, 1000>>), 1, 8)

SampleJulianDays ==
    {BytesOfNat(n, 4) : n \in 0..Window}
    \cup {BytesOfNat(JULIAN_DAY_OF_EPOCH + d, 4) : d \in (-Window)..Window}
    \cup {BytesOfNat(JULIAN_DAY_OF_EPOCH + 365 + d, 4) : d \in 58..59}
    \cup {BytesOfNat(JULIAN_DAY_OF_EPOCH + LastDayInRange + d, 4) : d \in (-Window)..Window}
    \cup {<<255, 255, 255, 255>>}

SampleNanos ==
    {BytesOfNat(n, 8) : n \in 0..Window}
    \cup {BytesOfNat(1000000000 - d, 8) : d \in 0..Window}
    \cup {SubSeq(AddBytes(NanosPerDay, I64FromInt(-d)), 1, 8) : d \in 0..Window}
    \cup {SubSeq(AddBytes(I64Max, I64FromInt(1 - d)), 1, 8) : d \in 0..Window}
    \cup {SubSeq(AddBytes(U64Max, I64FromInt(-d)), 1, 8) : d \in 0..Window}

Int96Entries ==
    {n \o j : n \in SampleNanos, j \in SampleJulianDays}

NoOutput == [kind |-> "none", text |-> "", overflow |-> FALSE, secs |-> <<>>, nanos |-> <<>>]

\* no INT96 conversion is under way
Int96Idle ==
    /\ i_entry = <<>>
    /\ i_out = NoOutput
    /\ i_pc = "idle"

\* no call of decode_value is under way
DecodeIdle ==
    /\ v_bytes = <<>>
    /\ v_physical = "BOOLEAN"
    /\ v_out = Returned("")
    /\ v_pc = "idle"

NoResult == [kind |-> "none", values |-> <<>>]

\* no page was read yet
NoPage == [page_type |-> "none", num_values |-> 0, buffer |-> <<>>]

\* no call of extract_dictionary_values is under way
DictIdle ==
    /\ d_physical_type = "BOOLEAN"
    /\ d_max_items = 0
    /\ d_num_row_groups = 0
    /\ d_rg_idx = 0
    /\ d_pages_read = 0
    /\ d_dictionary_values = <<>>
    /\ d_stream_error = ""
    /\ d_page = NoPage
    /\ d_result = NoResult
    /\ d_pc = "idle"

NoSchema == [columns |-> <<>>]

NoTree == [lines |-> <<>>, column_to_type |-> <<>>]

SchemaIdle ==
    /\ s_md = [schema |-> <<>>, row_groups |-> <<>>]
    /\ s_hasher = <<>>
    /\ s_schema = NoSchema
    /\ s_tree = NoTree
    /\ s_pc = "idle"

\* no call of aggregate_column_stats is under way
AggregateIdle ==
    /\ a_md = [schema |-> <<>>, row_groups |-> <<>>]
    /\ a_physical = "BOOLEAN"
    /\ a_stats = <<>>
    /\ a_pc = "idle"

\* no let binding of the body of from_file is made yet
NoLocals ==
    [file |-> <<>>, reader |-> <<>>, row_groups |-> <<>>, metadata |-> <<>>,
     schema |-> <<>>, sample_data |-> <<>>]

NoCtx == [kind |-> "none", ctx |-> <<>>, error |-> ""]

\* no call of ParquetCtx::from_file is under way
CtxIdle ==
    /\ p_file_path = ""
    /\ p_calls = <<>>
    /\ p_locals = NoLocals
    /\ p_result = NoCtx
    /\ p_pc = "idle"

\* the enum TabId (tab.rs) and the tabs a TabManager is built with
TabIds == {"Schema", "RowGroups", "Visualize"}

NoManager == [tabs |-> <<>>, active_tab |-> 0]

\* no TabId and no TabManager exists
TabsIdle ==
    /\ t_tab = "none"
    /\ t_manager = NoManager
    /\ t_tabs_manager = NoManager
    /\ t_calls = <<>>

\* Option<usize>: None, and Some of a small index
NoIndex == [some |-> FALSE, val |-> 0]

SomeIndex(i) == [some |-> TRUE, val |-> i]

NoApp ==
    [exit |-> FALSE, tabs |-> <<>>, active_tab |-> 0, column_selected |-> NoIndex,
     schema_columns |-> <<>>, scroll_offset |-> 0, row_group_selected |-> 0,
     schema_tree_height |-> 0]

NoTab == [kind |-> "none"]

\* no App runs and no tab is handed an event
AppIdle ==
    /\ u_app = NoApp
    /\ u_tab = NoTab
    /\ u_key = ""
    /\ u_underflow = FALSE
    /\ u_pc = "idle"

NoKeymap == [bindings |-> <<>>, reverse |-> <<>>]

\* no call of build_keymap is under way
KeymapIdle ==
    /\ k_config = <<>>
    /\ k_raw = <<>>
    /\ k_bindings = <<>>
    /\ k_keymap = NoKeymap
    /\ k_pc = "idle"

NoSample == [kind |-> "none", data |-> <<>>, error |-> ""]

\* no call of read_sample_data is under way
SampleIdle ==
    /\ r_schema = <<>>
    /\ r_batches = <<>>
    /\ r_next = 0
    /\ r_flattened_columns = <<>>
    /\ r_all_rows = <<>>
    /\ r_total_rows_read = 0
    /\ r_result = NoSample
    /\ r_pc = "idle"

\* nothing of the terminal interface runs
UiIdle ==
    /\ TabsIdle
    /\ AppIdle
    /\ KeymapIdle
    /\ SampleIdle

\* none of the file readers runs
CoreIdle ==
    /\ Int96Idle
    /\ DecodeIdle
    /\ DictIdle
    /\ SchemaIdle
    /\ AggregateIdle
    /\ CtxIdle

coreVars == <<int96Vars, decodeVars, dictVars, schemaVars, aggregateVars, ctxVars>>

Int96Init ==
    /\ i_entry \in Int96Entries
    /\ overflow_checks \in BOOLEAN
    /\ i_out = NoOutput
    /\ i_pc = "entry"
    /\ DecodeIdle
    /\ DictIdle
    /\ SchemaIdle
    /\ AggregateIdle
    /\ CtxIdle
    /\ UiIdle

\* one iteration of the INT96 loop body on the entry
ConvertInt96 ==
    /\ i_pc = "entry"
    /\ i_out' = Int96Convert(i_entry, overflow_checks)
    /\ i_pc' = IF i_out'.kind = "panic" THEN "panicked" ELSE "pushed"
    /\ UNCHANGED <<i_entry, overflow_checks, decodeVars, dictVars, schemaVars,
                   aggregateVars, ctxVars, uiVars>>

Int96Next ==
    ConvertInt96

SpecInt96 ==
    Int96Init /\ [][Int96Next]_vars

-----------------------------------------------------------------------------
(* The calls of decode_value                                               *)

\* byte slices up to this length are taken exhaustively over ByteAlphabet
MaxBytes == 3

\* NUL, "A", the two bytes of U+00E9, and a byte no UTF-8 text contains
ByteAlphabet == {0, 65, 195, 169, 255}

RECURSIVE SlicesOfLen(_)
SlicesOfLen(n) ==
    IF n = 0 THEN {<<>>}
    ELSE {Append(b, x) : b \in SlicesOfLen(n - 1), x \in ByteAlphabet}

\* slices of the widths of the fixed-width types and beyond, among them the
\* values of the unit tests of decode_value
WideSlices ==
    {<<42, 0, 0, 0>>, <<255, 255, 255, 255>>, <<195, 245, 72, 64>>, <<65, 66, 67, 68>>,
     <<0, 0, 128, 127>>, <<0, 0, 192, 127>>, <<1, 0, 0, 0>>, <<0, 0, 0, 128>>,
     <<104, 101, 108, 108, 111>>, <<255, 254, 253, 252, 251>>,
     <<42, 0, 0, 0, 0, 0, 0, 0>>, <<110, 134, 27, 240, 249, 33, 9, 64>>,
     <<255, 255, 255, 255, 255, 255, 255, 255>>, <<0, 0, 0, 0, 0, 0, 0, 128>>,
     <<255, 255, 255, 255, 255, 255, 239, 71>>, <<0, 0, 0, 0, 0, 0, 240, 127>>,
     <<65, 66, 67, 68, 69, 70, 71, 72>>,
     <<0, 1, 2, 3, 4, 5, 6, 7, 8, 9, 10, 11, 12>>,
     <<255, 255, 255, 127>>, <<0, 202, 154, 59>>, <<0, 54, 101, 196>>,
     <<255, 255, 255, 255, 255, 255, 255, 127>>, <<7, 202, 154, 59, 0, 0, 0, 0>>,
     <<0, 0, 100, 167, 179, 182, 224, 13>>, <<0, 0, 0, 128, 255, 255, 255, 255>>,
     <<0>>, <<1>>}

DecodeInputs ==
    UNION {SlicesOfLen(n) : n \in 0..MaxBytes} \cup WideSlices

DecodeInit ==
    /\ v_bytes \in DecodeInputs
    /\ v_physical \in PhysicalType
    /\ v_out = Returned("")
    /\ v_pc = "call"
    /\ overflow_checks = FALSE
    /\ Int96Idle
    /\ DictIdle
    /\ SchemaIdle
    /\ AggregateIdle
    /\ CtxIdle
    /\ UiIdle

\* one call decode_value(bytes, physical)
CallDecodeValue ==
    /\ v_pc = "call"
    /\ v_out' = decode_value(v_bytes, v_physical)
    /\ v_pc' = IF v_out'.ok THEN "returned" ELSE "panicked"
    /\ UNCHANGED <<v_bytes, v_physical, overflow_checks, int96Vars, dictVars, schemaVars,
                   aggregateVars, ctxVars, uiVars>>

DecodeNext ==
    CallDecodeValue

SpecDecode ==
    DecodeInit /\ [][DecodeNext]_vars

-----------------------------------------------------------------------------
(* The calls of extract_dictionary_values.  The reader hands out row       *)
(* groups and pages as the loops ask for them; each may be an error.       *)

\* max_items ranges over 0..MaxItems, and a page holds up to MaxItems entries
MaxItems == 2

\* the file has up to MaxRowGroups row groups
MaxRowGroups == 2

\* a column chunk has up to MaxPages pages
MaxPages == 2

\* two dictionary entries in PLAIN encoding for each physical type
SampleEntries(physical) ==
    IF physical = "BYTE_ARRAY" THEN <<(<<1, 0, 0, 0, 65>>), (<<2, 0, 0, 0, 255, 254>>)>>
    ELSE IF physical = "INT32" THEN <<(<<42, 0, 0, 0>>), (<<255, 255, 255, 255>>)>>
    ELSE IF physical = "INT64"
    THEN <<(<<42, 0, 0, 0, 0, 0, 0, 0>>), (<<255, 255, 255, 255, 255, 255, 255, 255>>)>>
    ELSE IF physical = "INT96"
    THEN <<BytesOfNat(0, 8) \o BytesOfNat(JULIAN_DAY_OF_EPOCH, 4),
           BytesOfNat(0, 8) \o BytesOfNat(JULIAN_DAY_OF_EPOCH + LastDayInRange + 1, 4)>>
    ELSE IF physical = "FLOAT" THEN <<(<<195, 245, 72, 64>>), (<<0, 0, 192, 127>>)>>
    ELSE IF physical = "DOUBLE"
    THEN <<(<<110, 134, 27, 240, 249, 33, 9, 64>>), (<<0, 0, 0, 0, 0, 0, 0, 128>>)>>
    ELSE <<(<<1>>), (<<255>>)>>

\* n entries, alternating from the first-th sample
RECURSIVE EntryRun(_, _, _)
EntryRun(physical, first, n) ==
    IF n = 0 THEN <<>>
    ELSE SampleEntries(physical)[first] \o EntryRun(physical, 3 - first, n - 1)

\* the buffer without its last cut bytes
CutOff(buffer, cut) ==
    SubSeq(buffer, 1, Len(buffer) - cut)

\* the length of the last of n entries that start with the first sample
LastEntryLen(physical, n) ==
    Len(SampleEntries(physical)[2 - (n % 2)])

\* page buffers: whole entries, and buffers that end one byte before the end
\* of their last entry or two bytes into it
PageBuffers(physical) ==
    {EntryRun(physical, first, n) : first \in 1..2, n \in 0..MaxItems}
    \cup {CutOff(EntryRun(physical, 1, n), 1) : n \in 1..MaxItems}
    \cup {CutOff(EntryRun(physical, 1, n), LastEntryLen(physical, n) - 2) :
             n \in {m \in 1..MaxItems : LastEntryLen(physical, m) > 2}}

\* the pages a page reader of the column can hand out: a data page, and
\* dictionary pages that announce no value, one value or MaxItems values
Pages(physical) ==
    {[page_type |-> "DATA_PAGE", num_values |-> 1, buffer |-> <<>>]}
    \cup {[page_type |-> "DICTIONARY_PAGE", num_values |-> n, buffer |-> b] :
             n \in {0, 1, MaxItems}, b \in PageBuffers(physical)}

DictInit ==
    /\ d_physical_type \in PhysicalType
    /\ d_max_items \in 0..MaxItems
    /\ d_num_row_groups \in 0..MaxRowGroups
    /\ overflow_checks \in (IF d_physical_type = "INT96" THEN BOOLEAN ELSE {FALSE})
    /\ d_rg_idx = 0
    /\ d_pages_read = 0
    /\ d_dictionary_values = <<>>
    /\ d_stream_error = ""
    /\ d_page = NoPage
    /\ d_result = NoResult
    /\ d_pc = "for"
    /\ Int96Idle
    /\ DecodeIdle
    /\ SchemaIdle
    /\ AggregateIdle
    /\ CtxIdle
    /\ UiIdle

dictInputs == <<d_physical_type, d_max_items, d_num_row_groups, overflow_checks>>

\* for rg_idx in 0..num_row_groups: get_row_group(rg_idx)? and
\* get_column_page_reader(col_idx)? both succeed
OpenRowGroup ==
    /\ d_pc = "for"
    /\ d_rg_idx < d_num_row_groups
    /\ d_pages_read' = 0
    /\ d_pc' = "while"
    /\ UNCHANGED <<d_rg_idx, d_dictionary_values, d_stream_error, d_page, d_result>>
    /\ UNCHANGED <<dictInputs, int96Vars, decodeVars, schemaVars, aggregateVars, ctxVars, uiVars>>

\* get_row_group or get_column_page_reader returns Err: the ? returns it
OpenRowGroupFails ==
    /\ d_pc = "for"
    /\ d_rg_idx < d_num_row_groups
    /\ \E call \in {"get_row_group", "get_column_page_reader"} : d_stream_error' = call
    /\ d_result' = [kind |-> "Err", values |-> <<>>]
    /\ d_pc' = "done"
    /\ UNCHANGED <<d_rg_idx, d_pages_read, d_dictionary_values, d_page>>
    /\ UNCHANGED <<dictInputs, int96Vars, decodeVars, schemaVars, aggregateVars, ctxVars, uiVars>>

\* the test of the two breaks: dictionary_values.len() >= max_items
LimitNeverReached(dictionary_values, max_items) ==
    FALSE

LimitReached(dictionary_values, max_items) ==
    Len(dictionary_values) >= max_items

\* get_next_page() returns Some(page): the body of the while loop.  A column
\* chunk has at most one dictionary page, and it is its first page.
NextPage ==
    /\ d_pc = "while"
    /\ d_pages_read < MaxPages
    /\ \E page \in {pg \in Pages(d_physical_type) :
                        pg.page_type = "DICTIONARY_PAGE" => d_pages_read = 0} :
          \E out \in {IF page.page_type = "DICTIONARY_PAGE"
                       THEN ProcessDictionaryPage(d_dictionary_values, page,
                                                  d_physical_type, d_max_items,
                                                  overflow_checks)
                       ELSE Pushed(d_dictionary_values)} :
              /\ d_page' = page
              /\ d_dictionary_values' = out.values
              /\ d_result' = IF out.panic THEN [kind |-> "panic", values |-> <<>>]
                             ELSE d_result
              /\ d_pc' = IF out.panic THEN "done"
                         ELSE IF page.page_type = "DICTIONARY_PAGE"
                                 /\ LimitReached(out.values, d_max_items)
                         THEN "return"
                         ELSE "while"
    /\ d_pages_read' = d_pages_read + 1
    /\ UNCHANGED <<d_rg_idx, d_stream_error>>
    /\ UNCHANGED <<dictInputs, int96Vars, decodeVars, schemaVars, aggregateVars, ctxVars, uiVars>>

\* get_next_page() returns None: the while loop ends, and the check after it
\* breaks the for loop or lets it go on
EndOfPages ==
    /\ d_pc = "while"
    /\ IF LimitReached(d_dictionary_values, d_max_items)
       THEN d_pc' = "return" /\ UNCHANGED d_rg_idx
       ELSE d_pc' = "for" /\ d_rg_idx' = d_rg_idx + 1
    /\ UNCHANGED <<d_pages_read, d_dictionary_values, d_stream_error, d_page, d_result>>
    /\ UNCHANGED <<dictInputs, int96Vars, decodeVars, schemaVars, aggregateVars, ctxVars, uiVars>>

\* get_next_page() returns Err: the ? returns it
NextPageFails ==
    /\ d_pc = "while"
    /\ d_stream_error' = "get_next_page"
    /\ d_result' = [kind |-> "Err", values |-> <<>>]
    /\ d_pc' = "done"
    /\ UNCHANGED <<d_rg_idx, d_pages_read, d_dictionary_values, d_page>>
    /\ UNCHANGED <<dictInputs, int96Vars, decodeVars, schemaVars, aggregateVars, ctxVars, uiVars>>

\* the for loop is over, by exhaustion or by break: Ok(dictionary_values)
ReturnOk ==
    /\ \/ d_pc = "return"
       \/ d_pc = "for" /\ d_rg_idx = d_num_row_groups
    /\ d_result' = [kind |-> "Ok", values |-> d_dictionary_values]
    /\ d_pc' = "done"
    /\ UNCHANGED <<d_rg_idx, d_pages_read, d_dictionary_values, d_stream_error, d_page>>
    /\ UNCHANGED <<dictInputs, int96Vars, decodeVars, schemaVars, aggregateVars, ctxVars, uiVars>>

DictNext ==
    \/ OpenRowGroup
    \/ OpenRowGroupFails
    \/ NextPage
    \/ EndOfPages
    \/ NextPageFails
    \/ ReturnOk

SpecDict ==
    DictInit /\ [][DictNext]_vars

-----------------------------------------------------------------------------
(* Strings of tags, slices of bytes, and their orders                      *)

\* the bytes of the Debug strings of the compressions and encodings
TagBytes ==
    [tag \in {"PLAIN", "RLE", "RLE_DICTIONARY", "SNAPPY", "UNCOMPRESSED"} |->
        CASE tag = "PLAIN" -> <<80, 76, 65, 73, 78>>
          [] tag = "RLE" -> <<82, 76, 69>>
          [] tag = "RLE_DICTIONARY" -> <<82, 76, 69, 95, 68, 73, 67, 84, 73, 79, 78, 65, 82, 89>>
          [] tag = "SNAPPY" -> <<83, 78, 65, 80, 80, 89>>
          [] tag = "UNCOMPRESSED" -> <<85, 78, 67, 79, 77, 80, 82, 69, 83, 83, 69, 68>>]

\* the variant that orders two slices of four bytes as i32 values
SliceLessSigned(a, b) ==
    IF Len(a) = 4 /\ Len(b) = 4
    THEN \/ a[4] >= 128 /\ b[4] < 128
         \/ /\ (a[4] >= 128) = (b[4] >= 128)
            /\ \E i \in 1..4 : a[i] < b[i] /\ \A j \in (i + 1)..4 : a[j] = b[j]
    ELSE \E i \in 1..(Len(b)) :
            /\ \A j \in 1..(i - 1) : j <= Len(a) /\ a[j] = b[j]
            /\ i > Len(a) \/ a[i] < b[i]

\* Ord for [u8]: lexicographic, a proper prefix is smaller
SliceLess(a, b) ==
    \E i \in 1..(Len(b)) :
        /\ \A j \in 1..(i - 1) : j <= Len(a) /\ a[j] = b[j]
        /\ i > Len(a) \/ a[i] < b[i]

\* Ord for String: the order of the UTF-8 bytes
StringLess(s, t) ==
    SliceLess(TagBytes[s], TagBytes[t])

\* x put in its place in a sorted vector
RECURSIVE InsertSorted(_, _)
InsertSorted(sorted, x) ==
    IF Len(sorted) = 0 THEN <<x>>
    ELSE IF StringLess(x, sorted[Len(sorted)])
    THEN Append(InsertSorted(SubSeq(sorted, 1, Len(sorted) - 1), x), sorted[Len(sorted)])
    ELSE Append(sorted, x)

\* Vec<String>::sort(): the elements in ascending order, equal ones in the
\* order they had
RECURSIVE Sorted(_)
Sorted(vec) ==
    IF Len(vec) = 0 THEN <<>>
    ELSE InsertSorted(Sorted(SubSeq(vec, 1, Len(vec) - 1)), vec[Len(vec)])

\* vec.join(sep)
RECURSIVE Join(_, _)
Join(vec, sep) ==
    IF Len(vec) = 0 THEN ""
    ELSE IF Len(vec) = 1 THEN vec[1]
    ELSE vec[1] \o sep \o Join(Tail(vec), sep)

\* HashSet<String>::into_iter().collect::<Vec<_>>(): the elements of the set,
\* each once, in the order the hasher puts them; hasher lists every tag
RECURSIVE IntoVec(_, _)
IntoVec(set, hasher) ==
    IF Len(hasher) = 0 THEN <<>>
    ELSE IF Head(hasher) \in set THEN <<Head(hasher)>> \o IntoVec(set, Tail(hasher))
    ELSE IntoVec(set, Tail(hasher))

-----------------------------------------------------------------------------
(* ParquetMetaData: the schema tree and the column chunks of the row       *)
(* groups.  md.schema is root.get_fields(); md.row_groups[r][c + 1] is     *)
(* md.row_groups()[r].column(c).                                           *)

None == [some |-> FALSE, val |-> <<>>]

Some(x) == [some |-> TRUE, val |-> x]

\* schema_descr.columns(): the primitive nodes below fields, depth first
RECURSIVE Columns(_)
Columns(fields) ==
    IF Len(fields) = 0 THEN <<>>
    ELSE (IF Head(fields).is_primitive THEN <<Head(fields)>>
          ELSE Columns(Head(fields).fields))
         \o Columns(Tail(fields))

\* the strings codecs holds after the for_each over the row groups
ColumnCodecs(md, col_idx) ==
    {md.row_groups[r][col_idx + 1].compression : r \in DOMAIN md.row_groups}

\* the strings encs holds after the for_each over the row groups
ColumnEncs(md, col_idx) ==
    UNION {{md.row_groups[r][col_idx + 1].encodings[e] :
                e \in DOMAIN md.row_groups[r][col_idx + 1].encodings} :
           r \in DOMAIN md.row_groups}

\* summaries of FileSchema::from_metadata: the sets joined in iteration order
Summaries(md, hasher) ==
    [c \in 1..Len(Columns(md.schema)) |->
        <<Join(IntoVec(ColumnCodecs(md, c - 1), hasher), ", "),
          Join(IntoVec(ColumnEncs(md, c - 1), hasher), ", ")>>]

\* leaf_summaries of build_schema_tree_lines: collected, sorted, joined
LeafSummaries(md, hasher) ==
    [c \in 1..Len(Columns(md.schema)) |->
        <<Join(Sorted(IntoVec(ColumnCodecs(md, c - 1), hasher)), ", "),
          Join(Sorted(IntoVec(ColumnEncs(md, c - 1), hasher)), ", ")>>]

-----------------------------------------------------------------------------
(* aggregate_column_stats                                                  *)

unwrap_or(opt, default) ==
    IF opt.some THEN opt.val ELSE default

\* the accumulator of the fold before the first row group
FoldInit ==
    [min_bytes |-> None, max_bytes |-> None, nulls |-> 0, distinct |-> None,
     compressed |-> 0, uncompressed |-> 0]

\* the variant that keeps the first min and max bytes it meets
FoldStatisticsFirst(acc, stats) ==
    [acc EXCEPT
        !.nulls = @ + unwrap_or(stats.null_count_opt, 0),
        !.distinct = Some(unwrap_or(@, 0) + unwrap_or(stats.distinct_count_opt, 0)),
        !.min_bytes = IF stats.min_bytes_opt.some /\ ~@.some
                      THEN Some(stats.min_bytes_opt.val) ELSE @,
        !.max_bytes = IF stats.max_bytes_opt.some /\ ~@.some
                      THEN Some(stats.max_bytes_opt.val) ELSE @]

\* the part of the closure under if let Some(stats) = col_meta.statistics()
FoldStatistics(acc, stats) ==
    [acc EXCEPT
        !.nulls = @ + unwrap_or(stats.null_count_opt, 0),
        !.distinct = Some(unwrap_or(@, 0) + unwrap_or(stats.distinct_count_opt, 0)),
        !.min_bytes = IF stats.min_bytes_opt.some
                         /\ (~@.some \/ SliceLess(stats.min_bytes_opt.val, @.val))
                      THEN Some(stats.min_bytes_opt.val) ELSE @,
        !.max_bytes = IF stats.max_bytes_opt.some
                         /\ (~@.some \/ SliceLess(@.val, stats.max_bytes_opt.val))
                      THEN Some(stats.max_bytes_opt.val) ELSE @]

\* the closure with the sizes added only for a chunk that has statistics
FoldStepInside(acc, col_meta) ==
    IF col_meta.statistics.some
    THEN [FoldStatistics(acc, col_meta.statistics.val) EXCEPT
            !.compressed = @ + col_meta.compressed_size,
            !.uncompressed = @ + col_meta.uncompressed_size]
    ELSE acc

\* the closure of the fold, for the chunk col_meta of one row group
FoldStep(acc, col_meta) ==
    [(IF col_meta.statistics.some THEN FoldStatistics(acc, col_meta.statistics.val) ELSE acc)
        EXCEPT !.compressed = @ + col_meta.compressed_size,
               !.uncompressed = @ + col_meta.uncompressed_size]

\* md.row_groups().iter().fold(init, closure), from row group r on
RECURSIVE FoldRowGroups(_, _, _, _)
FoldRowGroups(md, col_idx, r, acc) ==
    IF r > Len(md.row_groups) THEN acc
    ELSE FoldRowGroups(md, col_idx, r + 1, FoldStep(acc, md.row_groups[r][col_idx + 1]))

\* the ColumnStats built from the folded accumulator
ColumnStats(acc, physical) ==
    [min |-> IF acc.min_bytes.some THEN Some(decode_value(acc.min_bytes.val, physical).text)
             ELSE None,
     max |-> IF acc.max_bytes.some THEN Some(decode_value(acc.max_bytes.val, physical).text)
             ELSE None,
     nulls |-> acc.nulls,
     distinct |-> acc.distinct,
     total_compressed_size |-> acc.compressed,
     total_uncompressed_size |-> acc.uncompressed]

aggregate_column_stats(md, col_idx, physical) ==
    ColumnStats(FoldRowGroups(md, col_idx, 1, FoldInit), physical)

-----------------------------------------------------------------------------
(* FileSchema::from_metadata and its traverse                              *)

\* the box-drawing connectors and continuation of a tree line
LastConnector == "\\u{2514}\\u{2500}"

MidConnector == "\\u{251C}\\u{2500}"

Bar == "\\u{2502}"

\* format!("{}{} {}", prefix, connector, node.name())
Line(prefix, is_last, name) ==
    prefix \o (IF is_last THEN LastConnector ELSE MidConnector) \o " " \o name

\* format!("{}{}", prefix, if is_last { "   " } else { "|  " })
NextPrefix(prefix, is_last) ==
    prefix \o (IF is_last THEN "   " ELSE Bar \o "  ")

RootInfo ==
    [variant |-> "Root", name |-> "root", display |-> LastConnector \o " root"]

\* the Primitive that always takes the summaries and statistics of column 0
PrimitiveInfoFirst(node, line, leaf_idx, summaries, md) ==
    [variant |-> "Primitive", name |-> node.name, display |-> line,
     info |-> [name |-> node.name, repetition |-> node.repetition,
               physical |-> node.physical, logical |-> node.logical,
               codec |-> summaries[1][1], encoding |-> summaries[1][2],
               converted_type |-> node.converted_type, dictionary_values |-> None],
     stats |-> aggregate_column_stats(md, 0, node.physical)]

\* SchemaInfo::Primitive of a primitive node, the leaf_idx-th column
PrimitiveInfo(node, line, leaf_idx, summaries, md) ==
    [variant |-> "Primitive", name |-> node.name, display |-> line,
     info |-> [name |-> node.name, repetition |-> node.repetition,
               physical |-> node.physical, logical |-> node.logical,
               codec |-> summaries[leaf_idx + 1][1],
               encoding |-> summaries[leaf_idx + 1][2],
               converted_type |-> node.converted_type, dictionary_values |-> None],
     stats |-> aggregate_column_stats(md, leaf_idx, node.physical)]

GroupInfo(node, line) ==
    [variant |-> "Group", name |-> node.name, display |-> line,
     repetition |-> node.repetition]

\* the push of the node itself, and *leaf_idx += 1 for a primitive one
PushNode(node, line, acc, summaries, md) ==
    IF node.is_primitive
    THEN [lines    |-> Append(acc.lines, PrimitiveInfo(node, line, acc.leaf_idx, summaries, md)),
          leaf_idx |-> acc.leaf_idx + 1]
    ELSE [lines    |-> Append(acc.lines, GroupInfo(node, line)),
          leaf_idx |-> acc.leaf_idx]

\* traverse(node, prefix, is_last, lines, leaf_idx, summaries, md); acc holds
\* lines and leaf_idx, and the value is what they are after the call
RECURSIVE traverse(_, _, _, _, _, _)
RECURSIVE TraverseFields(_, _, _, _, _, _)
traverse(node, prefix, is_last, acc, summaries, md) ==
    IF ~node.is_primitive
    THEN TraverseFields(node.fields, 1, NextPrefix(prefix, is_last),
                        PushNode(node, Line(prefix, is_last, node.name), acc, summaries, md),
                        summaries, md)
    ELSE PushNode(node, Line(prefix, is_last, node.name), acc, summaries, md)

\* for (idx, child) in fields.iter().enumerate(), from the idx-th child on
TraverseFields(fields, idx, prefix, acc, summaries, md) ==
    IF idx > Len(fields) THEN acc
    ELSE TraverseFields(fields, idx + 1, prefix,
                        traverse(fields[idx], prefix, idx = Len(fields), acc, summaries, md),
                        summaries, md)

\* the variant that pushes the Root after the traversal
from_metadata_root_last(md, hasher) ==
    [columns |-> Append(TraverseFields(md.schema, 1, "   ", [lines |-> <<>>, leaf_idx |-> 0],
                                       Summaries(md, hasher), md).lines,
                        RootInfo)]

\* FileSchema::from_metadata(md): the FileSchema of the Ok it returns
from_metadata(md, hasher) ==
    [columns |-> TraverseFields(md.schema, 1, "   ", [lines |-> <<RootInfo>>, leaf_idx |-> 0],
                                Summaries(md, hasher), md).lines]

\* FileSchema::column_size
column_size(self) ==
    Cardinality({c \in DOMAIN self.columns : self.columns[c].variant = "Primitive"})

-----------------------------------------------------------------------------
(* build_schema_tree_lines and its traverse                                *)

\* the entry of column_to_type for a primitive node
ColumnTypePrimitive(node, leaf_idx, summaries) ==
    [variant |-> "Primitive",
     info |-> [name |-> node.name, repetition |-> node.repetition,
               physical |-> node.physical, logical |-> node.logical,
               codec |-> summaries[leaf_idx + 1][1],
               encoding |-> summaries[leaf_idx + 1][2],
               converted_type |-> node.converted_type]]

\* map.insert(line, ..), lines.push(..) and, for a primitive node, *leaf_idx += 1
PushLine(node, line, acc, summaries) ==
    IF node.is_primitive
    THEN [lines    |-> Append(acc.lines,
                              [variant |-> "Primitive", name |-> node.name, display |-> line]),
          map      |-> (line :> ColumnTypePrimitive(node, acc.leaf_idx, summaries)) @@ acc.map,
          leaf_idx |-> acc.leaf_idx + 1]
    ELSE [lines    |-> Append(acc.lines,
                              [variant |-> "Group", name |-> node.name, display |-> line]),
          map      |-> (line :> [variant |-> "Group", repetition |-> node.repetition]) @@ acc.map,
          leaf_idx |-> acc.leaf_idx]

\* the traverse nested in build_schema_tree_lines
RECURSIVE traverse_lines(_, _, _, _, _)
RECURSIVE TraverseLineFields(_, _, _, _, _)
traverse_lines(node, prefix, is_last, acc, summaries) ==
    IF ~node.is_primitive
    THEN TraverseLineFields(node.fields, 1, NextPrefix(prefix, is_last),
                            PushLine(node, Line(prefix, is_last, node.name), acc, summaries),
                            summaries)
    ELSE PushLine(node, Line(prefix, is_last, node.name), acc, summaries)

TraverseLineFields(fields, idx, prefix, acc, summaries) ==
    IF idx > Len(fields) THEN acc
    ELSE TraverseLineFields(fields, idx + 1, prefix,
                            traverse_lines(fields[idx], prefix, idx = Len(fields), acc, summaries),
                            summaries)

\* (lines, column_to_type) as returned
TreeLines(acc) ==
    [lines |-> acc.lines, column_to_type |-> acc.map]

\* build_schema_tree_lines(file_name), for a file whose metadata is md
build_schema_tree_lines(md, hasher) ==
    TreeLines(TraverseLineFields(md.schema, 1, "   ",
                                 [lines |-> <<[variant |-> "Root", name |-> "root",
                                               display |-> LastConnector \o " root"]>>,
                                  map |-> <<>>, leaf_idx |-> 0],
                                 LeafSummaries(md, hasher)))

-----------------------------------------------------------------------------
(* The files the schema tree is built from                                 *)

\* schemas have up to this many nodes below the root
MaxNodes == 3

\* the name of the idx-th child of the node named parent
ChildName(parent, idx) ==
    parent \o DigitChar[idx + 1]

\* a primitive node; the physical type and repetition go by the position
PrimitiveNode(name, idx) ==
    [name |-> name, is_primitive |-> TRUE,
     physical |-> IF idx % 2 = 1 THEN "INT32" ELSE "BYTE_ARRAY",
     repetition |-> IF idx % 2 = 1 THEN "REQUIRED" ELSE "OPTIONAL",
     logical |-> "", converted_type |-> "NONE", fields |-> <<>>]

GroupNode(name, idx, fields) ==
    [name |-> name, is_primitive |-> FALSE, physical |-> "",
     repetition |-> IF idx % 2 = 1 THEN "OPTIONAL" ELSE "REPEATED",
     logical |-> "", converted_type |-> "NONE", fields |-> fields]

\* the sequences of sibling trees with n nodes in all, the first of them the
\* idx-th child of parent; and the trees with n nodes
RECURSIVE ForestsFrom(_, _, _)
RECURSIVE Trees(_, _, _)
ForestsFrom(n, parent, idx) ==
    IF n = 0 THEN {<<>>}
    ELSE UNION {{<<t>> \o rest : t \in Trees(k, parent, idx),
                                 rest \in ForestsFrom(n - k, parent, idx + 1)} :
                k \in 1..n}

Trees(n, parent, idx) ==
    (IF n = 1 THEN {PrimitiveNode(ChildName(parent, idx), idx)} ELSE {})
    \cup {GroupNode(ChildName(parent, idx), idx, fields) :
            fields \in ForestsFrom(n - 1, ChildName(parent, idx), 1)}

Schemas ==
    UNION {ForestsFrom(n, "c", 1) : n \in 0..MaxNodes}

\* column chunks: compression, encodings, statistics and sizes
ChunkTemplates ==
    << [compression |-> "UNCOMPRESSED", encodings |-> <<"PLAIN", "RLE">>,
        statistics |-> None, compressed_size |-> 10, uncompressed_size |-> 12],
       [compression |-> "SNAPPY", encodings |-> <<"RLE_DICTIONARY", "PLAIN">>,
        statistics |-> Some([null_count_opt |-> Some(1), distinct_count_opt |-> None,
                             min_bytes_opt |-> Some(<<251, 255, 255, 255>>),
                             max_bytes_opt |-> Some(<<7, 0, 0, 0>>)]),
        compressed_size |-> 7, uncompressed_size |-> 20],
       [compression |-> "SNAPPY", encodings |-> <<"PLAIN">>,
        statistics |-> Some([null_count_opt |-> None, distinct_count_opt |-> Some(3),
                             min_bytes_opt |-> Some(<<1, 0, 0, 0>>),
                             max_bytes_opt |-> Some(<<255, 254>>)]),
        compressed_size |-> 4, uncompressed_size |-> 4],
       [compression |-> "UNCOMPRESSED", encodings |-> <<"RLE", "RLE_DICTIONARY", "PLAIN">>,
        statistics |-> Some([null_count_opt |-> None, distinct_count_opt |-> None,
                             min_bytes_opt |-> None, max_bytes_opt |-> None]),
        compressed_size |-> 0, uncompressed_size |-> 1] >>

\* a row group of ncols column chunks: the templates in turn, from one of them on
RowGroup(shift, ncols) ==
    [c \in 1..ncols |-> ChunkTemplates[((shift + c) % Len(ChunkTemplates)) + 1]]

RECURSIVE RowGroupSeqs(_, _)
RowGroupSeqs(n, ncols) ==
    IF n = 0 THEN {<<>>}
    ELSE {Append(rgs, RowGroup(shift, ncols)) :
            rgs \in RowGroupSeqs(n - 1, ncols), shift \in 0..(Len(ChunkTemplates) - 1)}

MetaDatas ==
    UNION {{[schema |-> schema, row_groups |-> rgs] :
                rgs \in UNION {RowGroupSeqs(n, Len(Columns(schema))) : n \in 0..MaxRowGroups}} :
           schema \in Schemas}

RECURSIVE PermSeqs(_)
PermSeqs(set) ==
    IF set = {} THEN {<<>>}
    ELSE UNION {{<<x>> \o rest : rest \in PermSeqs(set \ {x})} : x \in set}

\* The iteration order of a HashSet<String> is not specified.  A hasher is an
\* order of the tags; the sets of one call iterate in the order it gives, and
\* every order of the codecs and of the encodings is the order of some hasher.
Hashers ==
    {codecs \o encs : codecs \in PermSeqs({"SNAPPY", "UNCOMPRESSED"}),
                      encs \in PermSeqs({"PLAIN", "RLE", "RLE_DICTIONARY"})}

SchemaInit ==
    /\ s_md \in MetaDatas
    /\ s_hasher = <<>>
    /\ s_schema = NoSchema
    /\ s_tree = NoTree
    /\ s_pc = "loaded"
    /\ overflow_checks = FALSE
    /\ Int96Idle
    /\ DecodeIdle
    /\ DictIdle
    /\ AggregateIdle
    /\ CtxIdle
    /\ UiIdle

\* one call FileSchema::from_metadata(md)
FromMetadata ==
    /\ s_pc = "loaded"
    /\ \E hasher \in Hashers :
        /\ s_hasher' = hasher
        /\ s_schema' = from_metadata(s_md, hasher)
    /\ s_pc' = "from_metadata"
    /\ UNCHANGED <<s_md, s_tree, overflow_checks, int96Vars, decodeVars, dictVars,
                   aggregateVars, ctxVars, uiVars>>

\* one call build_schema_tree_lines(file_name) on a file that opens
BuildSchemaTreeLines ==
    /\ s_pc = "loaded"
    /\ \E hasher \in Hashers :
        /\ s_hasher' = hasher
        /\ s_tree' = build_schema_tree_lines(s_md, hasher)
    /\ s_pc' = "build_schema_tree_lines"
    /\ UNCHANGED <<s_md, s_schema, overflow_checks, int96Vars, decodeVars, dictVars,
                   aggregateVars, ctxVars, uiVars>>

\* File::open or SerializedFileReader::new returns Err, and ? returns it
BuildSchemaTreeLinesFails ==
    /\ s_pc = "loaded"
    /\ s_pc' = "error"
    /\ UNCHANGED <<s_md, s_hasher, s_schema, s_tree, overflow_checks, int96Vars,
                   decodeVars, dictVars, aggregateVars, ctxVars, uiVars>>

SchemaNext ==
    \/ FromMetadata
    \/ BuildSchemaTreeLines
    \/ BuildSchemaTreeLinesFails

SpecSchema ==
    SchemaInit /\ [][SchemaNext]_vars

-----------------------------------------------------------------------------
(* aggregate_column_stats of src/main.rs, and the calls of both versions   *)

\* the body of if let Some(stats) = col_meta.statistics() without the sizes
MainStatistics(acc, stats) ==
    [acc EXCEPT
        !.nulls = IF stats.null_count_opt.some THEN @ + stats.null_count_opt.val ELSE @,
        !.distinct = IF stats.distinct_count_opt.some
                     THEN Some(unwrap_or(@, 0) + stats.distinct_count_opt.val) ELSE @,
        !.min_bytes = IF stats.min_bytes_opt.some
                         /\ (~@.some \/ SliceLess(stats.min_bytes_opt.val, @.val))
                      THEN Some(stats.min_bytes_opt.val) ELSE @,
        !.max_bytes = IF stats.max_bytes_opt.some
                         /\ (~@.some \/ SliceLess(@.val, stats.max_bytes_opt.val))
                      THEN Some(stats.max_bytes_opt.val) ELSE @]

\* the body of for rg in md.row_groups(), for the chunk col_meta
MainLoopBody(acc, col_meta) ==
    IF col_meta.statistics.some
    THEN [MainStatistics(acc, col_meta.statistics.val) EXCEPT
            !.compressed = @ + col_meta.compressed_size,
            !.uncompressed = @ + col_meta.uncompressed_size]
    ELSE acc

\* for rg in md.row_groups(), from row group r on
RECURSIVE MainLoop(_, _, _, _)
MainLoop(md, col_idx, r, acc) ==
    IF r > Len(md.row_groups) THEN acc
    ELSE MainLoop(md, col_idx, r + 1, MainLoopBody(acc, md.row_groups[r][col_idx + 1]))

\* aggregate_column_stats of src/main.rs; its decode_value has the arms of the
\* one of file/schema.rs
main_aggregate_column_stats(md, col_idx, physical) ==
    ColumnStats(MainLoop(md, col_idx, 1, FoldInit), physical)

\* min and max bytes of the statistics of a chunk: absent, of four bytes with
\* and without the sign bit, of other lengths, one a prefix of another
StatRanges ==
    {<<None, None>>,
     <<Some(<<251, 255, 255, 255>>), Some(<<7, 0, 0, 0>>)>>,
     <<Some(<<1, 0, 0, 0>>), Some(<<255, 254>>)>>,
     <<Some(<<2, 0, 0, 0>>), None>>,
     <<Some(<<1, 255, 255, 255>>), Some(<<1, 255, 255, 255>>)>>,
     <<None, Some(<<255, 255, 255, 255>>)>>,
     <<Some(<<1, 0>>), Some(<<1, 0, 0, 0>>)>>,
     <<Some(<<251, 255, 255, 255>>), Some(<<251, 255, 255, 255>>)>>}

\* an Option<u64> that is None; its val is never read
NoCount == [some |-> FALSE, val |-> 0]

\* the column chunks of the column: without statistics, and with statistics
\* with and without a distinct count and a null count
StatChunks ==
    {[statistics |-> None, compressed_size |-> 10, uncompressed_size |-> 12]}
    \cup {[statistics |-> Some([null_count_opt |-> NoCount, distinct_count_opt |-> d,
                                min_bytes_opt |-> range[1], max_bytes_opt |-> range[2]]),
           compressed_size |-> 7, uncompressed_size |-> 20] :
             d \in {NoCount, Some(3)}, range \in StatRanges}
    \cup {[statistics |-> Some([null_count_opt |-> Some(1), distinct_count_opt |-> NoCount,
                                min_bytes_opt |-> None, max_bytes_opt |-> None]),
           compressed_size |-> 4, uncompressed_size |-> 4]}

\* files with one leaf column and n row groups
RECURSIVE ChunkSeqs(_)
ChunkSeqs(n) ==
    IF n = 0 THEN {<<>>}
    ELSE {Append(rgs, <<chunk>>) : rgs \in ChunkSeqs(n - 1), chunk \in StatChunks}

AggregateInputs ==
    {[schema |-> <<>>, row_groups |-> rgs] :
        rgs \in UNION {ChunkSeqs(n) : n \in 0..MaxRowGroups}}

AggregateInit ==
    /\ a_md \in AggregateInputs
    /\ a_physical \in {"INT32", "BYTE_ARRAY"}
    /\ a_stats = <<>>
    /\ a_pc = "loaded"
    /\ overflow_checks = FALSE
    /\ Int96Idle
    /\ DecodeIdle
    /\ DictIdle
    /\ SchemaIdle
    /\ CtxIdle
    /\ UiIdle

\* one call aggregate_column_stats(md, 0, physical) of file/schema.rs
AggregateColumnStats ==
    /\ a_pc = "loaded"
    /\ a_stats' = aggregate_column_stats(a_md, 0, a_physical)
    /\ a_pc' = "file_schema"
    /\ UNCHANGED <<a_md, a_physical, overflow_checks, int96Vars, decodeVars, dictVars,
                   schemaVars, ctxVars, uiVars>>

\* one call aggregate_column_stats(&md, 0, physical) of main.rs
MainAggregateColumnStats ==
    /\ a_pc = "loaded"
    /\ a_stats' = main_aggregate_column_stats(a_md, 0, a_physical)
    /\ a_pc' = "main"
    /\ UNCHANGED <<a_md, a_physical, overflow_checks, int96Vars, decodeVars, dictVars,
                   schemaVars, ctxVars, uiVars>>

AggregateNext ==
    \/ AggregateColumnStats
    \/ MainAggregateColumnStats

SpecAggregate ==
    AggregateInit /\ [][AggregateNext]_vars

-----------------------------------------------------------------------------
(* ParquetCtx::from_file.  Each call it makes returns a Result; what the   *)
(* file system and the parquet reader answer is the choice of ok.          *)

FilePaths == {"a.parquet", "b.parquet", "c.parquet"}

\* Result::ok
OkOfAlways(r) ==
    Some(r.val)

OkOf(r) ==
    IF r.kind = "Ok" THEN Some(r.val) ELSE None

\* the footer of a file with k row groups and no column
FooterOf(k) ==
    [schema |-> <<>>, row_groups |-> [r \in 1..k |-> <<>>]]

\* the ParquetCtx of the Ok
CtxOf(file_path, locals) ==
    [file_path |-> file_path, metadata |-> locals.metadata,
     row_groups |-> locals.row_groups, schema |-> locals.schema,
     sample_data |-> locals.sample_data]

\* the ? operator on an Err: the function returns it
ReturnErr(call) ==
    /\ p_result' = [kind |-> "Err", ctx |-> <<>>, error |-> call]
    /\ p_pc' = "done"
    /\ UNCHANGED p_locals

CtxInit ==
    /\ p_file_path \in FilePaths
    /\ p_calls = <<>>
    /\ p_locals = NoLocals
    /\ p_result = NoCtx
    /\ p_pc = "open"
    /\ overflow_checks = FALSE
    /\ Int96Idle
    /\ DecodeIdle
    /\ DictIdle
    /\ SchemaIdle
    /\ AggregateIdle
    /\ UiIdle

ctxRest ==
    <<p_file_path, overflow_checks, int96Vars, decodeVars, dictVars, schemaVars,
      aggregateVars, uiVars>>

\* let file = File::open(file_path)?;
FileOpen ==
    /\ p_pc = "open"
    /\ \E ok \in BOOLEAN :
        /\ p_calls' = Append(p_calls, [call |-> "File::open", ok |-> ok])
        /\ IF ok
           THEN /\ p_locals' = [p_locals EXCEPT !.file = [path |-> p_file_path]]
                /\ p_pc' = "reader"
                /\ UNCHANGED p_result
           ELSE ReturnErr("File::open")
    /\ UNCHANGED ctxRest

\* let reader = SerializedFileReader::new(file)?; let md = reader.metadata();
SerializedFileReaderNew ==
    /\ p_pc = "reader"
    /\ \E ok \in BOOLEAN :
        /\ p_calls' = Append(p_calls, [call |-> "SerializedFileReader::new", ok |-> ok])
        /\ IF ok
           THEN /\ \E k \in 0..MaxRowGroups :
                     p_locals' = [p_locals EXCEPT !.reader = [metadata |-> FooterOf(k)]]
                /\ p_pc' = "row_groups"
                /\ UNCHANGED p_result
           ELSE ReturnErr("SerializedFileReader::new")
    /\ UNCHANGED ctxRest

\* let row_groups = RowGroups::from_file_reader(&reader)?;
RowGroupsFromFileReader ==
    /\ p_pc = "row_groups"
    /\ \E ok \in BOOLEAN :
        /\ p_calls' = Append(p_calls, [call |-> "RowGroups::from_file_reader", ok |-> ok])
        /\ IF ok
           THEN /\ p_locals' =
                     [p_locals EXCEPT !.row_groups =
                         [num_row_groups |-> Len(p_locals.reader.metadata.row_groups)]]
                /\ p_pc' = "metadata"
                /\ UNCHANGED p_result
           ELSE ReturnErr("RowGroups::from_file_reader")
    /\ UNCHANGED ctxRest

\* let metadata = FileMetadata::from_metadata(&md)?;
FileMetadataFromMetadata ==
    /\ p_pc = "metadata"
    /\ \E ok \in BOOLEAN :
        /\ p_calls' = Append(p_calls, [call |-> "FileMetadata::from_metadata", ok |-> ok])
        /\ IF ok
           THEN /\ p_locals' =
                     [p_locals EXCEPT !.metadata =
                         [num_row_groups |-> Len(p_locals.reader.metadata.row_groups)]]
                /\ p_pc' = "schema"
                /\ UNCHANGED p_result
           ELSE ReturnErr("FileMetadata::from_metadata")
    /\ UNCHANGED ctxRest

\* let schema = FileSchema::from_metadata(&md)?;
FileSchemaFromMetadata ==
    /\ p_pc = "schema"
    /\ \E ok \in BOOLEAN :
        /\ p_calls' = Append(p_calls, [call |-> "FileSchema::from_metadata", ok |-> ok])
        /\ IF ok
           THEN /\ p_locals' =
                     [p_locals EXCEPT !.schema =
                         from_metadata(p_locals.reader.metadata, <<>>)]
                /\ p_pc' = "sample_data"
                /\ UNCHANGED p_result
           ELSE ReturnErr("FileSchema::from_metadata")
    /\ UNCHANGED ctxRest

\* let sample_data = ParquetSampleData::read_sample_data(file_path).ok();
ReadSampleData ==
    /\ p_pc = "sample_data"
    /\ \E r \in {[kind |-> "Ok", val |-> [file_path |-> p_file_path]],
                 [kind |-> "Err", val |-> [file_path |-> ""]]} :
        /\ p_calls' = Append(p_calls, [call |-> "ParquetSampleData::read_sample_data",
                                       ok |-> r.kind = "Ok"])
        /\ p_locals' = [p_locals EXCEPT !.sample_data = OkOf(r)]
    /\ p_pc' = "return"
    /\ UNCHANGED p_result
    /\ UNCHANGED ctxRest

\* Ok(ParquetCtx { file_path, metadata, row_groups, schema, sample_data })
ReturnCtx ==
    /\ p_pc = "return"
    /\ p_result' = [kind |-> "Ok", ctx |-> CtxOf(p_file_path, p_locals), error |-> ""]
    /\ p_pc' = "done"
    /\ UNCHANGED <<p_calls, p_locals>>
    /\ UNCHANGED ctxRest

CtxNext ==
    \/ FileOpen
    \/ SerializedFileReaderNew
    \/ RowGroupsFromFileReader
    \/ FileMetadataFromMetadata
    \/ FileSchemaFromMetadata
    \/ ReadSampleData
    \/ ReturnCtx

SpecCtx ==
    CtxInit /\ [][CtxNext]_vars

-----------------------------------------------------------------------------
(* Claims about the INT96 conversion                                       *)

\* the entry {julian_day: 2440588, nanos: 0}
EpochEntry == BytesOfNat(0, 8) \o BytesOfNat(2440588, 4)

\* C8: the entry with julian_day = 2440588 and nanos = 0 converts to seconds 0
\* and sub-second nanoseconds 0 and is rendered as
\* "1970-01-01 00:00:00.000000000 UTC".
C8_EpochRendersExactly ==
    (i_pc = "pushed" /\ i_entry = EpochEntry) =>
        /\ i_out.kind = "timestamp"
        /\ i_out.secs = BytesOfNat(0, 8)
        /\ i_out.nanos = BytesOfNat(0, 8)
        /\ i_out.text = "1970-01-01 00:00:00.000000000 UTC"

C8_Witness ==
    i_pc = "pushed" /\ i_entry = EpochEntry /\ i_out.kind = "timestamp"

\* C9: for every 12-byte entry the conversion completes without arithmetic
\* overflow in i64 and yields a timestamp string or the raw fallback string.
C9_NoOverflow ==
    i_pc \in {"pushed", "panicked"} =>
        /\ i_pc = "pushed"
        /\ ~i_out.overflow
        /\ i_out.kind \in {"timestamp", "raw"}

\* the instant (julian_day - 2440588) * 86400 * 10^9 + nanos of an entry, as an
\* exact integer: a sign and a 24-byte magnitude
SignedInstant(nanos, day, mag) ==
    IF ~IsNegI64(day) THEN [neg |-> FALSE, mag |-> SubSeq(AddBytes(mag, nanos), 1, 24)]
    ELSE IF LessBytes(nanos, mag)
    THEN [neg |-> TRUE, mag |-> SubSeq(AddBytes(mag, NegBytes(nanos)), 1, 24)]
    ELSE [neg |-> FALSE, mag |-> SubSeq(AddBytes(nanos, NegBytes(mag)), 1, 24)]

InstantOfDay(nanos, day) ==
    SignedInstant(nanos, day,
                  ZeroExtend(MulBytesAll(AbsI64(day), <<86400, 1000, 1000, 1000>>), 24))

Instant(entry) ==
    InstantOfDay(ZeroExtend(SubSeq(entry, 1, 8), 24),
                 I64Sub(Exact(ZeroExtend(SubSeq(entry, 9, 12), 8)),
                        BytesOfNat(2440588, 8)).val)

\* the instant is a nanosecond count that fits i64, hence a representable timestamp
Representable(inst) ==
    LET two63 == [i \in 1..24 |-> IF i = 8 THEN 128 ELSE 0]
    IN  LessBytes(inst.mag, two63) \/ (inst.neg /\ inst.mag = two63)

\* the timestamp of day dayMag, second perDay.r, fraction frac, counted from
\* the epoch backwards when neg
InstantDateTime(neg, perDay, dayMag, frac) ==
    FormatDateTime(
        [days  |-> IF ~neg THEN dayMag ELSE IF perDay.r = 0 THEN -dayMag ELSE -(dayMag + 1),
         sod   |-> IF ~neg \/ perDay.r = 0 THEN perDay.r ELSE 86400 - perDay.r,
         nsecs |-> frac])

InstantOfDayCount(neg, perDay, frac) ==
    InstantDateTime(neg, perDay, NatOfBytes(SubSeq(perDay.q, 1, 4)), frac)

InstantOfSeconds(neg, whole, roundUp) ==
    InstantOfDayCount(neg,
                      DivBytes(IF roundUp
                               THEN SubSeq(AddBytes(whole.q, BytesOfNat(1, 24)), 1, 24)
                               ELSE whole.q, 86400),
                      IF roundUp THEN 1000000000 - whole.r ELSE whole.r)

InstantOfWhole(neg, whole) ==
    InstantOfSeconds(neg, whole, neg /\ whole.r # 0)

\* the timestamp of an instant: whole seconds rounded down, the rest as the
\* fraction
InstantText(inst) ==
    InstantOfWhole(inst.neg, DivBytesAll(inst.mag, <<1000, 1000, 1000>>))

\* C10: every entry whose instant is representable is rendered as the timestamp
\* of exactly that instant, not as the raw fallback.  Stated for the entries
\* whose conversion stays within i64, so that what is refuted is the
\* rendering and not the overflow of C9.
C10_InRangeIsTimestamp ==
    i_pc = "pushed" =>
        \A inst \in {Instant(i_entry)} :
            (Representable(inst) /\ ~i_out.overflow) =>
                /\ i_out.kind = "timestamp"
                /\ i_out.text = InstantText(inst)

-----------------------------------------------------------------------------
(* Claims about decode_value                                               *)

\* the sixteen hex digits, upper case
UpperNibble ==
    [n \in 0..15 |-> IF n < 10 THEN NatToString(n)
                     ELSE <<"A", "B", "C", "D", "E", "F">>[n - 9]]

\* every byte in order as two upper-case hex digits, nothing else
UpperHex(bytes) ==
    LET hex[i \in 0..Len(bytes)] ==
            IF i = 0 THEN ""
            ELSE hex[i - 1] \o UpperNibble[bytes[i] \div 16] \o UpperNibble[bytes[i] % 16]
    IN  hex[Len(bytes)]

\* the bytes cannot be decoded as the physical type: text that is not UTF-8,
\* or a fixed-width type with a slice of another length
Undecodable(bytes, physical) ==
    \/ physical \in {"BYTE_ARRAY", "FIXED_LEN_BYTE_ARRAY"} /\ ~Utf8Valid(bytes)
    \/ physical \in {"INT32", "FLOAT"} /\ Len(bytes) # 4
    \/ physical \in {"INT64", "DOUBLE"} /\ Len(bytes) # 8

\* C7: decode_value returns a string for every byte slice and every physical
\* type and never panics; for BYTE_ARRAY or FIXED_LEN_BYTE_ARRAY bytes that are
\* not valid UTF-8, and for INT32, INT64, FLOAT or DOUBLE with a slice whose
\* length is not the width of the type, the string is every byte in order as
\* two upper-case hex digits, without prefix, separator or truncation.
C7_UndecodableIsHex ==
    v_pc \in {"returned", "panicked"} =>
        /\ v_pc = "returned"
        /\ v_out.ok
        /\ Undecodable(v_bytes, v_physical) => v_out.text = UpperHex(v_bytes)

C7_Witness ==
    /\ v_pc = "returned"
    /\ v_physical = "BYTE_ARRAY"
    /\ v_bytes = <<255, 0, 65>>
    /\ v_out.text = "FF0041"

\* decimal digits, least significant first: digits * m + carry
RECURSIVE DecMulAdd(_, _, _)
DecMulAdd(digits, m, carry) ==
    IF Len(digits) = 0
    THEN (IF carry = 0 THEN <<>> ELSE <<carry % 10>> \o DecMulAdd(<<>>, m, carry \div 10))
    ELSE <<(Head(digits) * m + carry) % 10>>
         \o DecMulAdd(Tail(digits), m, (Head(digits) * m + carry) \div 10)

\* the decimal digits, least significant first, of the unsigned value of
\* little-endian bytes; no digit for zero
RECURSIVE DecOfBytes(_)
DecOfBytes(bytes) ==
    IF Len(bytes) = 0 THEN <<>>
    ELSE DecMulAdd(DecOfBytes(Tail(bytes)), 256, Head(bytes))

RECURSIVE DecText(_)
DecText(digits) ==
    IF Len(digits) = 0 THEN ""
    ELSE DecText(Tail(digits)) \o UpperNibble[Head(digits)]

\* the decimal numeral of digits: "0" for no digit, no leading zero otherwise
DecNumeral(digits) ==
    IF Len(digits) = 0 THEN "0" ELSE DecText(digits)

\* the decimal string of the two's-complement value of little-endian bytes:
\* a negative value is minus its magnitude, the complement of the bytes plus 1
SignedDecimal(bytes) ==
    IF bytes[Len(bytes)] >= 128
    THEN "-" \o DecNumeral(DecMulAdd(DecOfBytes([i \in 1..Len(bytes) |-> 255 - bytes[i]]), 1, 1))
    ELSE DecNumeral(DecOfBytes(bytes))

\* C11: for every signed 32-bit value v, decode_value of the 4 little-endian
\* bytes of v with INT32 returns the decimal string of v, and for every signed
\* 64-bit value v, decode_value of its 8 little-endian bytes with INT64
\* returns the decimal string of v, negative values included.
C11_IntegersRoundTrip ==
    /\ v_pc # "call"
    /\ \/ v_physical = "INT32" /\ Len(v_bytes) = 4
       \/ v_physical = "INT64" /\ Len(v_bytes) = 8
    => /\ v_out.ok
       /\ v_out.text = SignedDecimal(v_bytes)

C11_Witness ==
    /\ v_pc = "returned"
    /\ v_physical = "INT32"
    /\ v_bytes = <<255, 255, 255, 255>>
    /\ v_out.text = "-1"

\* C12: decode_value with the physical type BOOLEAN renders the value as the
\* string "true" or "false".
C12_BooleanIsTrueOrFalse ==
    v_pc # "call" /\ v_physical = "BOOLEAN" /\ Len(v_bytes) = 1 =>
        /\ v_out.ok
        /\ v_out.text \in {"true", "false"}

-----------------------------------------------------------------------------
(* Claims about extract_dictionary_values                                  *)

\* C1: for every column, every arrangement of pages over the row groups and
\* every max_items >= 0, the list extract_dictionary_values returns has at most
\* max_items values, for the fixed-width types with dictionary pages in more
\* than one row group and for the types of the default hex branch as well.
C1_AtMostMaxItems ==
    d_result.kind = "Ok" => Len(d_result.values) <= d_max_items

\* C2: when get_row_group, get_column_page_reader or get_next_page returns an
\* error after values have been collected, the call returns the values
\* collected so far as Ok: it returns no error and discards nothing.
C2_PartialOnStreamError ==
    (d_pc = "done" /\ d_stream_error # "" /\ Len(d_dictionary_values) > 0) =>
        /\ d_result.kind = "Ok"
        /\ d_result.values = d_dictionary_values

\* the width of the entries of a fixed-width type
StrideOf(physical) ==
    IF physical \in {"INT32", "FLOAT"} THEN 4
    ELSE IF physical \in {"INT64", "DOUBLE"} THEN 8
    ELSE 12

\* the payloads of the complete [length:4][data:length] records of a buffer
\* whose length headers are below 65536
RECURSIVE ByteArrayRecords(_)
ByteArrayRecords(buffer) ==
    IF Len(buffer) < 4 \/ Len(buffer) < 4 + buffer[1] + (256 * buffer[2]) THEN <<>>
    ELSE <<SubSeq(buffer, 5, 4 + buffer[1] + (256 * buffer[2]))>>
         \o ByteArrayRecords(SubSeq(buffer, 5 + buffer[1] + (256 * buffer[2]), Len(buffer)))

\* the complete records of a page buffer, in order
CompleteRecords(buffer, physical) ==
    IF physical = "BYTE_ARRAY" THEN ByteArrayRecords(buffer)
    ELSE [i \in 1..(Len(buffer) \div StrideOf(physical)) |->
             SubSeq(buffer, ((i - 1) * StrideOf(physical)) + 1, i * StrideOf(physical))]

\* the bytes of the buffer that the complete records take
RECURSIVE RecordBytes(_, _)
RecordBytes(records, physical) ==
    IF Len(records) = 0 THEN 0
    ELSE (IF physical = "BYTE_ARRAY" THEN 4 ELSE 0) + Len(Head(records))
         + RecordBytes(Tail(records), physical)

\* the buffer ends in the middle of a record
EndsMidRecord(buffer, physical) ==
    RecordBytes(CompleteRecords(buffer, physical), physical) < Len(buffer)

RecordTypes == {"BYTE_ARRAY", "INT32", "INT64", "INT96", "FLOAT", "DOUBLE"}

\* C15: for every dictionary record and every physical type, the string that
\* extract_dictionary_values puts in the sample equals decode_value of the
\* bytes of the record and the physical type of the column.  Stated for the
\* values collected from the dictionary page of the first row group.
C15_SampleEqualsDecodeValue ==
    /\ d_pc \in {"while", "return", "done"}
    /\ d_rg_idx = 0
    /\ d_page.page_type = "DICTIONARY_PAGE"
    /\ d_physical_type \in RecordTypes
    /\ d_result.kind \in {"none", "Ok"}
    => \A i \in DOMAIN d_dictionary_values :
          /\ i <= Len(CompleteRecords(d_page.buffer, d_physical_type))
          /\ d_dictionary_values[i]
                = decode_value(CompleteRecords(d_page.buffer, d_physical_type)[i],
                               d_physical_type).text

\* a step that pulls a dictionary page whose buffer ends in the middle of a
\* record
PullsTruncatedPage ==
    /\ d_pc = "while"
    /\ d_pages_read' = d_pages_read + 1
    /\ d_page'.page_type = "DICTIONARY_PAGE"
    /\ d_physical_type \in RecordTypes
    /\ EndsMidRecord(d_page'.buffer, d_physical_type)

\* what a step that pulled a page of the complete records recs must leave
KeepsCompleteRecords(recs) ==
    /\ d_result' = d_result
    /\ d_stream_error' = d_stream_error
    /\ d_rg_idx' = d_rg_idx
    /\ Len(d_dictionary_values') >= Len(d_dictionary_values)
    /\ SubSeq(d_dictionary_values', 1, Len(d_dictionary_values)) = d_dictionary_values
    /\ Len(d_dictionary_values') - Len(d_dictionary_values) <= Len(recs)
    /\ (d_page'.num_values >= Len(recs)
        /\ d_max_items >= Len(d_dictionary_values) + Len(recs))
       => Len(d_dictionary_values') = Len(d_dictionary_values) + Len(recs)
    /\ d_physical_type \in {"INT32", "INT64"} =>
          \A i \in 1..(Len(d_dictionary_values') - Len(d_dictionary_values)) :
              d_dictionary_values'[Len(d_dictionary_values) + i] = SignedDecimal(recs[i])
    /\ d_pc' = IF Len(d_dictionary_values') >= d_max_items THEN "return" ELSE "while"

PullsPage ==
    d_pc = "while" /\ d_pages_read' = d_pages_read + 1

OpensRowGroup ==
    d_pc = "for" /\ d_pc' = "while"

-----------------------------------------------------------------------------
(* Claims about the schema tree                                            *)

\* the primitive nodes of the schema in column order, and the ordinal (from
\* 0) of the one with a given name; the names of a schema are all different
LeafColumns == Columns(s_md.schema)

LeafOrdinal(name) ==
    (CHOOSE c \in 1..Len(LeafColumns) : LeafColumns[c].name = name) - 1

\* the Primitive nodes of the tree from_metadata returned
PrimitiveRows ==
    {i \in DOMAIN s_schema.columns : s_schema.columns[i].variant = "Primitive"}

\* the sums of the chunk sizes of column c (from 1) over the first r row groups
RECURSIVE CompressedSum(_, _)
CompressedSum(c, r) ==
    IF r = 0 THEN 0
    ELSE CompressedSum(c, r - 1) + s_md.row_groups[r][c].compressed_size

RECURSIVE UncompressedSum(_, _)
UncompressedSum(c, r) ==
    IF r = 0 THEN 0
    ELSE UncompressedSum(c, r - 1) + s_md.row_groups[r][c].uncompressed_size

\* C3: for every leaf column, the ColumnStats that from_metadata attaches to it
\* has total_compressed_size equal to the sum of the compressed_size of its
\* chunks over all row groups and total_uncompressed_size equal to the sum of
\* their uncompressed_size, whether or not the chunks carry statistics.
C3_TotalSizesAreSums ==
    s_pc = "from_metadata" =>
        /\ {s_schema.columns[i].name : i \in PrimitiveRows}
              = {LeafColumns[c].name : c \in DOMAIN LeafColumns}
        /\ \A i \in PrimitiveRows :
            /\ s_schema.columns[i].stats.total_compressed_size
                  = CompressedSum(LeafOrdinal(s_schema.columns[i].name) + 1,
                                  Len(s_md.row_groups))
            /\ s_schema.columns[i].stats.total_uncompressed_size
                  = UncompressedSum(LeafOrdinal(s_schema.columns[i].name) + 1,
                                    Len(s_md.row_groups))

\* a column with a chunk without statistics and a chunk with statistics, both
\* of a size above 0
C3_Witness ==
    /\ s_pc = "from_metadata"
    /\ \E i \in PrimitiveRows :
        \E r1, r2 \in DOMAIN s_md.row_groups :
            /\ ~s_md.row_groups[r1][LeafOrdinal(s_schema.columns[i].name) + 1].statistics.some
            /\ s_md.row_groups[r1][LeafOrdinal(s_schema.columns[i].name) + 1].compressed_size > 0
            /\ s_md.row_groups[r2][LeafOrdinal(s_schema.columns[i].name) + 1].statistics.some
            /\ s_md.row_groups[r2][LeafOrdinal(s_schema.columns[i].name) + 1].compressed_size > 0
            /\ s_schema.columns[i].stats.total_compressed_size = 17

\* C4: the node list from_metadata returns has exactly one Root node, at index
\* 0; for a schema without top-level fields the list is exactly [Root] and
\* column_size() is 0.
C4_OneRootFirst ==
    s_pc = "from_metadata" =>
        /\ Len(s_schema.columns) >= 1
        /\ s_schema.columns[1].variant = "Root"
        /\ \A i \in DOMAIN s_schema.columns : s_schema.columns[i].variant = "Root" => i = 1
        /\ Len(s_md.schema) = 0 =>
            /\ Len(s_schema.columns) = 1
            /\ column_size(s_schema) = 0

\* the tree of a schema without fields, in a file that has row groups
C4_Witness ==
    /\ s_pc = "from_metadata"
    /\ Len(s_md.schema) = 0
    /\ Len(s_md.row_groups) > 0
    /\ Len(s_schema.columns) = 1
    /\ s_schema.columns[1].name = "root"

\* the nodes of the schema by their paths: the indices of the children to take
\* from the top-level fields down
RECURSIVE PathsBelow(_)
PathsBelow(fields) ==
    UNION {{<<i>>} \cup {<<i>> \o p : p \in PathsBelow(fields[i].fields)} :
           i \in DOMAIN fields}

RECURSIVE NodeAt(_, _)
NodeAt(fields, path) ==
    IF Len(path) = 1 THEN fields[path[1]]
    ELSE NodeAt(fields[path[1]].fields, Tail(path))

\* p comes before q in pre-order with the children in declared order: p is an
\* ancestor of q, or p branches off to an earlier child
Before(p, q) ==
    \E i \in 1..Len(q) :
        /\ i - 1 <= Len(p)
        /\ \A j \in 1..(i - 1) : p[j] = q[j]
        /\ i > Len(p) \/ p[i] < q[i]

\* the number of Primitive nodes of the tree before row i
PrimitivesBefore(i) ==
    Cardinality({j \in PrimitiveRows : j < i})

\* C5: from_metadata emits the nodes in pre-order with the children in declared
\* order; the k-th Primitive node (from 0) carries the codec summary, the
\* encoding summary and the ColumnStats computed for leaf column k; and
\* column_size() is the number of leaf columns, for nested schemas too.
C5_PreOrderAndLeafOrdinals ==
    s_pc = "from_metadata" =>
        /\ Len(s_schema.columns) = 1 + Cardinality(PathsBelow(s_md.schema))
        /\ \A p \in PathsBelow(s_md.schema) :
            \A row \in {2 + Cardinality({q \in PathsBelow(s_md.schema) : Before(q, p)})} :
                /\ s_schema.columns[row].name = NodeAt(s_md.schema, p).name
                /\ (s_schema.columns[row].variant = "Primitive")
                      = NodeAt(s_md.schema, p).is_primitive
        /\ \A i \in PrimitiveRows :
            \A k \in {PrimitivesBefore(i)} :
                /\ k < Len(LeafColumns)
                /\ s_schema.columns[i].name = LeafColumns[k + 1].name
                /\ s_schema.columns[i].info.codec = Summaries(s_md, s_hasher)[k + 1][1]
                /\ s_schema.columns[i].info.encoding = Summaries(s_md, s_hasher)[k + 1][2]
                /\ s_schema.columns[i].stats
                      = aggregate_column_stats(s_md, k, LeafColumns[k + 1].physical)
        /\ column_size(s_schema) = Len(LeafColumns)

\* a tree with a group above two leaf columns whose summaries differ
C5_Witness ==
    /\ s_pc = "from_metadata"
    /\ Len(s_md.row_groups) >= 2
    /\ \E g, i, j \in DOMAIN s_schema.columns :
        /\ g < i /\ i < j
        /\ s_schema.columns[g].variant = "Group"
        /\ s_schema.columns[i].variant = "Primitive"
        /\ s_schema.columns[j].variant = "Primitive"
        /\ s_schema.columns[i].info.codec # s_schema.columns[j].info.codec
        /\ s_schema.columns[i].stats # s_schema.columns[j].stats

\* the elements of a set of tags in ascending order, each once
Ascending(set) ==
    CHOOSE vec \in PermSeqs(set) :
        \A i, j \in DOMAIN vec : i < j => StringLess(vec[i], vec[j])

\* C6: for every leaf column, the codec summary and the encoding summary list
\* each distinct tag seen in a row group of the column exactly once, in
\* ascending order, joined by ", ", in the tree of from_metadata as well as in
\* the one of build_schema_tree_lines.
C6_SummariesSorted ==
    /\ s_pc = "from_metadata" =>
        \A i \in PrimitiveRows :
            \A k \in {LeafOrdinal(s_schema.columns[i].name)} :
                /\ s_schema.columns[i].info.codec
                      = Join(Ascending(ColumnCodecs(s_md, k)), ", ")
                /\ s_schema.columns[i].info.encoding
                      = Join(Ascending(ColumnEncs(s_md, k)), ", ")
    /\ s_pc = "build_schema_tree_lines" =>
        \A line \in DOMAIN s_tree.column_to_type :
            s_tree.column_to_type[line].variant = "Primitive" =>
                \A k \in {LeafOrdinal(s_tree.column_to_type[line].info.name)} :
                    /\ s_tree.column_to_type[line].info.codec
                          = Join(Ascending(ColumnCodecs(s_md, k)), ", ")
                    /\ s_tree.column_to_type[line].info.encoding
                          = Join(Ascending(ColumnEncs(s_md, k)), ", ")

-----------------------------------------------------------------------------
(* Claims about aggregate_column_stats                                     *)

\* the chunk of the column in row group r
ChunkOf(r) == a_md.row_groups[r][1]

\* the row groups whose chunk reports a distinct count
ReportsDistinct ==
    {r \in DOMAIN a_md.row_groups :
        /\ ChunkOf(r).statistics.some
        /\ ChunkOf(r).statistics.val.distinct_count_opt.some}

\* the sum of the reported distinct counts over the first r row groups
RECURSIVE DistinctSum(_)
DistinctSum(r) ==
    IF r = 0 THEN 0
    ELSE DistinctSum(r - 1)
         + (IF r \in ReportsDistinct THEN ChunkOf(r).statistics.val.distinct_count_opt.val
            ELSE 0)

\* C13: the aggregated distinct count of a column is the sum of the distinct
\* counts of exactly those chunks that report one, and it is None when no
\* chunk of the column reports a distinct count, in particular when chunks
\* have statistics but no distinct count.
C13_DistinctIsSumOfReported ==
    a_pc = "file_schema" =>
        /\ a_stats.distinct.some = (ReportsDistinct # {})
        /\ a_stats.distinct.some =>
              a_stats.distinct.val = DistinctSum(Len(a_md.row_groups))

\* the sums of the sizes of the chunks of the column over the first r row groups
RECURSIVE ChunkCompressedSum(_)
ChunkCompressedSum(r) ==
    IF r = 0 THEN 0 ELSE ChunkCompressedSum(r - 1) + ChunkOf(r).compressed_size

RECURSIVE ChunkUncompressedSum(_)
ChunkUncompressedSum(r) ==
    IF r = 0 THEN 0 ELSE ChunkUncompressedSum(r - 1) + ChunkOf(r).uncompressed_size

\* C16: the aggregate_column_stats of src/main.rs adds the compressed_size and
\* the uncompressed_size of the chunk of every row group to the totals,
\* whether or not the chunk has statistics: its totals are the sums over all
\* row groups.
C16_MainTotalsAreSums ==
    a_pc = "main" =>
        /\ a_stats.total_compressed_size = ChunkCompressedSum(Len(a_md.row_groups))
        /\ a_stats.total_uncompressed_size = ChunkUncompressedSum(Len(a_md.row_groups))

\* the row groups whose chunk provides min bytes, and those that provide max
\* bytes
ProvidesMin ==
    {r \in DOMAIN a_md.row_groups :
        ChunkOf(r).statistics.some /\ ChunkOf(r).statistics.val.min_bytes_opt.some}

ProvidesMax ==
    {r \in DOMAIN a_md.row_groups :
        ChunkOf(r).statistics.some /\ ChunkOf(r).statistics.val.max_bytes_opt.some}

MinBytesOf(r) == ChunkOf(r).statistics.val.min_bytes_opt.val

MaxBytesOf(r) == ChunkOf(r).statistics.val.max_bytes_opt.val

\* x is before y in the lexicographic order of byte strings: after a common
\* prefix of k bytes, x ends and y does not, or the next byte of x is smaller
LexLess(x, y) ==
    \E k \in 0..Len(x) :
        /\ k <= Len(y)
        /\ \A j \in 1..k : x[j] = y[j]
        /\ \/ k = Len(x) /\ k < Len(y)
           \/ k < Len(x) /\ k < Len(y) /\ x[k + 1] < y[k + 1]

\* the first row group among those with the smallest min bytes, and the first
\* among those with the largest max bytes
HoldsSmallestMin(r) ==
    /\ r \in ProvidesMin
    /\ \A q \in ProvidesMin : ~LexLess(MinBytesOf(q), MinBytesOf(r))
    /\ \A q \in ProvidesMin : q < r => MinBytesOf(q) # MinBytesOf(r)

HoldsLargestMax(r) ==
    /\ r \in ProvidesMax
    /\ \A q \in ProvidesMax : ~LexLess(MaxBytesOf(r), MaxBytesOf(q))
    /\ \A q \in ProvidesMax : q < r => MaxBytesOf(q) # MaxBytesOf(r)

\* C17: after the fold over all row groups, min is the decoding of the
\* lexicographically smallest min byte string among the chunks that provide
\* one and max the decoding of the lexicographically largest max byte string;
\* min (max) is None exactly when no chunk provides min (max) bytes; on equal
\* byte strings the value of the earlier row group is the one kept.
C17_MinMaxAreLexicographicExtremes ==
    a_pc = "file_schema" =>
        /\ a_stats.min.some = (ProvidesMin # {})
        /\ a_stats.max.some = (ProvidesMax # {})
        /\ \A r \in DOMAIN a_md.row_groups :
            /\ HoldsSmallestMin(r) =>
                  a_stats.min.val = decode_value(MinBytesOf(r), a_physical).text
            /\ HoldsLargestMax(r) =>
                  a_stats.max.val = decode_value(MaxBytesOf(r), a_physical).text

\* the second row group replaces the min of the first, a prefix of it being
\* smaller, and leaves its max
C17_Witness ==
    /\ a_pc = "file_schema"
    /\ a_physical = "BYTE_ARRAY"
    /\ Len(a_md.row_groups) = 2
    /\ ProvidesMin = {1, 2}
    /\ ProvidesMax = {1, 2}
    /\ MinBytesOf(1) = <<1, 0, 0, 0>>
    /\ MinBytesOf(2) = <<1, 0>>
    /\ MaxBytesOf(1) = <<255, 254>>
    /\ MaxBytesOf(2) = <<1, 0, 0, 0>>
    /\ a_stats.max.val = "FFFE"
    /\ HoldsSmallestMin(2)
    /\ HoldsLargestMax(1)

\* the value of four little-endian bytes as an i32
I32Value(b) ==
    b[1] + (256 * b[2]) + (65536 * b[3])
    + (16777216 * (IF b[4] >= 128 THEN b[4] - 256 ELSE b[4]))

\* the min (max) bytes of the chunks are all of four bytes, and some are
\* negative as i32 and some are not
MixedSigns(cands) ==
    /\ \A b \in cands : Len(b) = 4
    /\ \E b \in cands : I32Value(b) < 0
    /\ \E b \in cands : I32Value(b) >= 0

\* C18: for an INT32 column whose chunk minima (maxima) include a negative
\* and a non-negative value, the aggregated min (max) can differ from the
\* numeric minimum (maximum): it is the numeric extreme only when that value is
\* also the extreme in the lexicographic order of the little-endian bytes.
C18_NumericExtremeOnlyIfLexicographic ==
    a_pc = "file_schema" /\ a_physical = "INT32" =>
        /\ MixedSigns({MinBytesOf(r) : r \in ProvidesMin}) =>
            \A r \in ProvidesMin :
                (\A q \in ProvidesMin : I32Value(MinBytesOf(r)) <= I32Value(MinBytesOf(q)))
                => ((a_stats.min.val = SignedDecimal(MinBytesOf(r)))
                    <=> (\A q \in ProvidesMin : ~LexLess(MinBytesOf(q), MinBytesOf(r))))
        /\ MixedSigns({MaxBytesOf(r) : r \in ProvidesMax}) =>
            \A r \in ProvidesMax :
                (\A q \in ProvidesMax : I32Value(MaxBytesOf(r)) >= I32Value(MaxBytesOf(q)))
                => ((a_stats.max.val = SignedDecimal(MaxBytesOf(r)))
                    <=> (\A q \in ProvidesMax : ~LexLess(MaxBytesOf(r), MaxBytesOf(q))))

\* the minima -5 and 2: the aggregated min is "2"
C18_Witness ==
    /\ a_pc = "file_schema"
    /\ a_physical = "INT32"
    /\ {MinBytesOf(r) : r \in ProvidesMin} = {<<251, 255, 255, 255>>, <<2, 0, 0, 0>>}
    /\ a_stats.min.val = "2"

-----------------------------------------------------------------------------
(* Claims about ParquetCtx::from_file                                      *)

\* the calls whose Err the ? operator returns
FatalCalls ==
    <<"File::open", "SerializedFileReader::new", "RowGroups::from_file_reader",
      "FileMetadata::from_metadata", "FileSchema::from_metadata">>

\* the calls that returned Err
FailedCalls ==
    {p_calls[i].call : i \in {j \in DOMAIN p_calls : ~p_calls[j].ok}}

\* C14: from_file returns an error and no context if opening the file,
\* parsing the footer, collecting the row-group information, building the
\* FileMetadata or building the FileSchema fails, and makes no further call
\* after the failure; the only failure it tolerates is that of reading the
\* sample data, and then it returns a complete context with sample_data = None.
C14_OnlySampleFailureTolerated ==
    p_pc = "done" =>
        /\ (\E i \in DOMAIN FatalCalls : FatalCalls[i] \in FailedCalls) =>
              /\ p_result.kind = "Err"
              /\ ~p_calls[Len(p_calls)].ok
              /\ \A i \in 1..(Len(p_calls) - 1) : p_calls[i].ok
              /\ p_result.error = p_calls[Len(p_calls)].call
        /\ (\A i \in DOMAIN FatalCalls : FatalCalls[i] \notin FailedCalls) =>
              /\ p_result.kind = "Ok"
              /\ Len(p_calls) = Len(FatalCalls) + 1
              /\ \A i \in DOMAIN FatalCalls : p_calls[i].call = FatalCalls[i]
              /\ p_result.ctx.file_path = p_file_path
              /\ p_result.ctx.row_groups.num_row_groups
                    = Len(p_locals.reader.metadata.row_groups)
              /\ p_result.ctx.metadata.num_row_groups
                    = Len(p_locals.reader.metadata.row_groups)
              /\ p_result.ctx.schema.columns[1].variant = "Root"
              /\ p_result.ctx.sample_data.some = p_calls[Len(p_calls)].ok
              /\ p_result.ctx.sample_data.some =>
                    p_result.ctx.sample_data.val.file_path = p_file_path

\* the five calls succeeded and read_sample_data failed
C14_Witness ==
    /\ p_pc = "done"
    /\ FailedCalls = {"ParquetSampleData::read_sample_data"}
    /\ p_result.kind = "Ok"
    /\ ~p_result.ctx.sample_data.some
    /\ p_result.ctx.row_groups.num_row_groups = 1

-----------------------------------------------------------------------------
(* usize arithmetic.  A usize is eight little-endian bytes (a 64-bit       *)
(* target); a value known to be small is also used as a plain integer.    *)

Usize(n) ==
    BytesOfNat(n, 8)

UsizeMax == [i \in 1..8 |-> 255]

\* a - b modulo 2^64, and whether the exact difference is negative
UsizeSub(a, b) ==
    [val |-> SubSeq(AddBytes(a, NegBytes(b)), 1, Len(a)),
     overflowed |-> LessBytes(a, b)]

\* a + b modulo 2^64, and whether the exact sum needs a 65th bit
UsizeAdd(a, b) ==
    [val |-> SubSeq(AddBytes(a, b), 1, Len(a)),
     overflowed |-> AddBytes(a, b)[Len(a) + 1] # 0]

\* usize::saturating_sub
SaturatingSub(a, b) ==
    IF LessBytes(a, b) THEN Usize(0) ELSE UsizeSub(a, b).val

\* a % d for a small d
UsizeRem(a, d) ==
    DivBytes(a, d).r

-----------------------------------------------------------------------------
(* TabId (tab.rs) and TabManager (tabs/manager.rs, tabs.rs)                *)

ALL == <<"Schema", "RowGroups", "Visualize">>

\* TabId as usize: the discriminant
index(self) ==
    CHOOSE i \in 0..(Len(ALL) - 1) : ALL[i + 1] = self

from_index(i) ==
    ALL[UsizeRem(i, Len(ALL)) + 1]

TabId_next(self) ==
    from_index(UsizeAdd(Usize(index(self)), Usize(1)).val)

TabId_prev(self) ==
    from_index(UsizeSub(Usize(index(self)), Usize(1)).val)

\* TabManager::new: the four tabs, the first one active
TabManager_new ==
    [tabs |-> <<"Visualize", "Metadata", "Schema", "Row Groups">>, active_tab |-> 0]

\* active_tab stays below tabs.len(), so the arithmetic is on small integers
TabManager_next(self) ==
    [self EXCEPT !.active_tab = (self.active_tab + 1) % Len(self.tabs)]

\* prev without the branch that wraps from the first tab to the last
TabManager_prevSaturating(self) ==
    [self EXCEPT !.active_tab =
         (IF self.active_tab < 1 THEN 0 ELSE self.active_tab - 1) % Len(self.tabs)]

TabManager_prev(self) ==
    IF self.active_tab = 0
    THEN [self EXCEPT !.active_tab = Len(self.tabs) - 1]
    ELSE [self EXCEPT !.active_tab =
              (IF self.active_tab < 1 THEN 0 ELSE self.active_tab - 1) % Len(self.tabs)]

\* calls made on the three objects before the model stops following them
MaxCalls == 3

TabsInit ==
    /\ t_tab = "Schema"
    /\ t_manager = TabManager_new
    /\ t_tabs_manager = TabManager_new
    /\ t_calls = <<>>
    /\ overflow_checks = FALSE
    /\ CoreIdle
    /\ AppIdle
    /\ KeymapIdle
    /\ SampleIdle

tabsRest == <<overflow_checks, coreVars, appVars, keymapVars, sampleVars>>

Called(target, call, before, after) ==
    t_calls' = Append(t_calls, [target |-> target, call |-> call, before |-> before, after |-> after])

TabIdNext ==
    /\ t_tab \in TabIds
    /\ Len(t_calls) < MaxCalls
    /\ t_tab' = TabId_next(t_tab)
    /\ Called("TabId", "next", index(t_tab), index(t_tab'))
    /\ UNCHANGED <<t_manager, t_tabs_manager, tabsRest>>

TabIdPrev ==
    /\ t_tab \in TabIds
    /\ Len(t_calls) < MaxCalls
    /\ t_tab' = TabId_prev(t_tab)
    /\ Called("TabId", "prev", index(t_tab), index(t_tab'))
    /\ UNCHANGED <<t_manager, t_tabs_manager, tabsRest>>

\* TabManager::next of tabs/manager.rs
ManagerNext ==
    /\ t_manager # NoManager
    /\ Len(t_calls) < MaxCalls
    /\ t_manager' = TabManager_next(t_manager)
    /\ Called("tabs/manager.rs", "next", t_manager.active_tab, t_manager'.active_tab)
    /\ UNCHANGED <<t_tab, t_tabs_manager, tabsRest>>

\* TabManager::prev of tabs/manager.rs
ManagerPrev ==
    /\ t_manager # NoManager
    /\ Len(t_calls) < MaxCalls
    /\ t_manager' = TabManager_prev(t_manager)
    /\ Called("tabs/manager.rs", "prev", t_manager.active_tab, t_manager'.active_tab)
    /\ UNCHANGED <<t_tab, t_tabs_manager, tabsRest>>

\* TabManager::next of tabs.rs
TabsManagerNext ==
    /\ t_tabs_manager # NoManager
    /\ Len(t_calls) < MaxCalls
    /\ t_tabs_manager' = TabManager_next(t_tabs_manager)
    /\ Called("tabs.rs", "next", t_tabs_manager.active_tab, t_tabs_manager'.active_tab)
    /\ UNCHANGED <<t_tab, t_manager, tabsRest>>

\* TabManager::prev of tabs.rs
TabsManagerPrev ==
    /\ t_tabs_manager # NoManager
    /\ Len(t_calls) < MaxCalls
    /\ t_tabs_manager' = TabManager_prev(t_tabs_manager)
    /\ Called("tabs.rs", "prev", t_tabs_manager.active_tab, t_tabs_manager'.active_tab)
    /\ UNCHANGED <<t_tab, t_manager, tabsRest>>

TabsNext ==
    \/ TabIdNext
    \/ TabIdPrev
    \/ ManagerNext
    \/ ManagerPrev
    \/ TabsManagerNext
    \/ TabsManagerPrev

SpecTabs ==
    TabsInit /\ [][TabsNext]_vars

-----------------------------------------------------------------------------
(* Claims about TabId and TabManager                                       *)

\* call k and call k + 1 were made one after the other on the same object
BackToBack(k, target, first, second) ==
    /\ k + 1 <= Len(t_calls)
    /\ t_calls[k].target = target
    /\ t_calls[k + 1].target = target
    /\ t_calls[k].call = first
    /\ t_calls[k + 1].call = second

Restored(k) ==
    t_calls[k + 1].after = t_calls[k].before

\* C22: TabId::next and TabId::prev are inverse cyclic moves over the three
\* tabs: t.next().prev() = t and t.prev().next() = t for every tab t, and
\* Schema.prev() is Visualize.
C22_TabIdNextPrevInverse ==
    \A k \in 1..Len(t_calls) :
        /\ BackToBack(k, "TabId", "next", "prev") => Restored(k)
        /\ BackToBack(k, "TabId", "prev", "next") => Restored(k)
        /\ (t_calls[k].target = "TabId" /\ t_calls[k].call = "prev"
                /\ t_calls[k].before = index("Schema"))
            => t_calls[k].after = index("Visualize")

ManagerOf(target) ==
    IF target = "tabs.rs" THEN t_tabs_manager ELSE t_manager

Managers == {"tabs/manager.rs", "tabs.rs"}

\* C23: after any sequence of TabManager::next and TabManager::prev calls
\* active_tab is a valid index into tabs; next followed by prev, and prev
\* followed by next, restore the previous active tab; prev on the first tab
\* selects the last tab and next on the last tab selects the first.
C23_ActiveTabValidAndCyclic ==
    \A m \in Managers :
        /\ ManagerOf(m).active_tab \in 0..(Len(ManagerOf(m).tabs) - 1)
        /\ \A k \in 1..Len(t_calls) :
            /\ BackToBack(k, m, "next", "prev") => Restored(k)
            /\ BackToBack(k, m, "prev", "next") => Restored(k)
            /\ (t_calls[k].target = m /\ t_calls[k].call = "prev" /\ t_calls[k].before = 0)
                => t_calls[k].after = Len(ManagerOf(m).tabs) - 1
            /\ (t_calls[k].target = m /\ t_calls[k].call = "next"
                    /\ t_calls[k].before = Len(ManagerOf(m).tabs) - 1)
                => t_calls[k].after = 0

\* prev on the first tab of the TabManager of tabs/manager.rs reached the last
\* tab and next brought it back to the first
C23_Witness ==
    /\ Len(t_calls) = 2
    /\ BackToBack(1, "tabs/manager.rs", "prev", "next")
    /\ t_calls[1].before = 0
    /\ t_calls[1].after = 3
    /\ t_manager.active_tab = 0

-----------------------------------------------------------------------------
(* App (app.rs): handle_key_event and the scroll adjustment                *)

\* what a call leaves: the App, and whether an unsigned operation of the call
\* left the range of usize (a panic with overflow checks, a wrap without)
Handled(self, underflow) ==
    [app |-> self, underflow |-> underflow]

\* scroll_offset + effective_viewport - 1
WindowEnd(scroll_offset, effective_viewport) ==
    UsizeSub(UsizeAdd(Usize(scroll_offset), effective_viewport).val, Usize(1))

\* relative_selected.saturating_sub(effective_viewport - 1)
ScrolledDown(relative_selected, effective_viewport) ==
    NatOfBytes(SaturatingSub(Usize(relative_selected),
                             UsizeSub(effective_viewport, Usize(1)).val))

\* the part of adjust_scroll_for_viewport for an item after the root
AdjustBelowRoot(self, effective_viewport, relative_selected, checks) ==
    IF relative_selected < self.scroll_offset
    THEN Handled([self EXCEPT !.scroll_offset = relative_selected], FALSE)
    ELSE IF WindowEnd(self.scroll_offset, effective_viewport).overflowed /\ checks
    THEN Handled(self, TRUE)
    ELSE IF LessBytes(WindowEnd(self.scroll_offset, effective_viewport).val,
                      Usize(relative_selected))
    THEN IF UsizeSub(effective_viewport, Usize(1)).overflowed /\ checks
         THEN Handled(self, TRUE)
         ELSE Handled([self EXCEPT !.scroll_offset =
                        ScrolledDown(relative_selected, effective_viewport)],
                   \/ UsizeSub(effective_viewport, Usize(1)).overflowed
                   \/ WindowEnd(self.scroll_offset, effective_viewport).overflowed)
    ELSE Handled(self, WindowEnd(self.scroll_offset, effective_viewport).overflowed)

App_adjust_scroll_for_viewport(self, viewport_height, checks) ==
    IF ~self.column_selected.some THEN Handled(self, FALSE)
    ELSE IF self.column_selected.val = 0
    THEN Handled([self EXCEPT !.scroll_offset = 0], FALSE)
    ELSE AdjustBelowRoot(self, SaturatingSub(Usize(viewport_height), Usize(1)),
                         self.column_selected.val - 1, checks)

App_adjust_scroll_for_selection(self, checks) ==
    IF self.column_selected.some
    THEN App_adjust_scroll_for_viewport(self, self.schema_tree_height, checks)
    ELSE Handled(self, FALSE)

App_scroll_down(self, amount) ==
    [self EXCEPT !.scroll_offset =
         Min(self.scroll_offset + amount,
             IF Len(self.schema_columns) < 1 THEN 0 ELSE Len(self.schema_columns) - 1)]

App_scroll_up(self, amount) ==
    [self EXCEPT !.scroll_offset =
         IF self.scroll_offset < amount THEN 0 ELSE self.scroll_offset - amount]

\* the second statement of the Right and Left arms
SelectOnRowGroups(self) ==
    IF self.active_tab = 1 /\ ~self.column_selected.some
    THEN [self EXCEPT !.column_selected = SomeIndex(1)]
    ELSE self

KeyRight(self) ==
    SelectOnRowGroups(IF self.active_tab + 1 < Len(self.tabs)
                      THEN [self EXCEPT !.active_tab = self.active_tab + 1]
                      ELSE self)

KeyLeft(self) ==
    SelectOnRowGroups(IF self.active_tab > 0
                      THEN [self EXCEPT !.active_tab = self.active_tab - 1]
                      ELSE self)

KeyDown(self) ==
    IF self.column_selected.some
    THEN IF self.column_selected.val + 1 < Len(self.schema_columns)
         THEN [self EXCEPT !.column_selected = SomeIndex(self.column_selected.val + 1)]
         ELSE self
    ELSE [self EXCEPT !.column_selected = SomeIndex(1)]

KeyUp(self) ==
    IF self.column_selected.some
    THEN IF self.column_selected.val > 1
         THEN [self EXCEPT !.column_selected = SomeIndex(self.column_selected.val - 1)]
         ELSE IF self.active_tab # 1
         THEN [self EXCEPT !.column_selected = NoIndex]
         ELSE self
    ELSE self

KeyCodes ==
    {"q", "Right", "Left", "Down", "Up", "PageDown", "PageUp", "j", "k", "Enter"}

handle_key_event(self, code, checks) ==
    IF code = "q" THEN Handled([self EXCEPT !.exit = TRUE], FALSE)
    ELSE IF code = "Right" THEN Handled(KeyRight(self), FALSE)
    ELSE IF code = "Left" THEN Handled(KeyLeft(self), FALSE)
    ELSE IF code = "Down"
    THEN IF self.active_tab = 0 \/ self.active_tab = 1
         THEN App_adjust_scroll_for_selection(KeyDown(self), checks)
         ELSE Handled(self, FALSE)
    ELSE IF code = "Up"
    THEN IF self.active_tab = 0 \/ self.active_tab = 1
         THEN App_adjust_scroll_for_selection(KeyUp(self), checks)
         ELSE Handled(self, FALSE)
    ELSE IF code = "PageDown"
    THEN Handled(IF self.active_tab = 0 THEN App_scroll_down(self, 2) ELSE self, FALSE)
    ELSE IF code = "PageUp"
    THEN Handled(IF self.active_tab = 0 THEN App_scroll_up(self, 2) ELSE self, FALSE)
    ELSE IF code = "j"
    THEN Handled([self EXCEPT !.row_group_selected = self.row_group_selected + 1], FALSE)
    ELSE IF code = "k"
    THEN Handled(IF self.row_group_selected > 0
              THEN [self EXCEPT !.row_group_selected = self.row_group_selected - 1]
              ELSE self, FALSE)
    ELSE Handled(self, FALSE)

\* schema trees have the Root and up to MaxLines - 1 lines below it
MaxLines == 4

\* the schema tree is drawn in an area of up to MaxHeight lines
MaxHeight == 3

\* build_schema_tree_lines: the Root, then primitive and group lines
SchemaColumnsOf(n) ==
    [i \in 1..n |-> IF i = 1 THEN "Root" ELSE IF i % 2 = 0 THEN "Primitive" ELSE "Group"]

\* the assignments of App::run before its loop
App_run(schema_columns) ==
    [exit |-> FALSE, tabs |-> <<"Schema", "Row Groups", "Visualize">>, active_tab |-> 0,
     column_selected |-> NoIndex, schema_columns |-> schema_columns, scroll_offset |-> 0,
     row_group_selected |-> 0, schema_tree_height |-> 0]

AppInit ==
    /\ \E n \in 1..MaxLines : u_app = App_run(SchemaColumnsOf(n))
    /\ u_tab = NoTab
    /\ u_key = ""
    /\ u_underflow = FALSE
    /\ u_pc = "draw"
    /\ overflow_checks \in BOOLEAN
    /\ CoreIdle
    /\ TabsIdle
    /\ KeymapIdle
    /\ SampleIdle

appRest == <<overflow_checks, coreVars, tabsVars, keymapVars, sampleVars>>

\* terminal.draw: render_schema_tree hands the height of its area, less the
\* borders, to set_schema_tree_height
Draw ==
    /\ u_pc = "draw"
    /\ \E new_height \in 0..MaxHeight :
        u_app' = [u_app EXCEPT !.schema_tree_height = new_height]
    /\ u_pc' = "events"
    /\ UNCHANGED <<u_tab, u_key, u_underflow, appRest>>

\* handle_events with a key press
HandleKeyEvent ==
    /\ u_pc = "events"
    /\ \E code \in KeyCodes :
        /\ code = "j" => u_app.row_group_selected < MaxRowGroups
        /\ u_app' = handle_key_event(u_app, code, overflow_checks).app
        /\ u_underflow' = handle_key_event(u_app, code, overflow_checks).underflow
        /\ u_key' = code
    /\ u_pc' = IF u_underflow' /\ overflow_checks THEN "panicked"
               ELSE IF u_app'.exit THEN "exited"
               ELSE "draw"
    /\ UNCHANGED <<u_tab, appRest>>

AppNext ==
    \/ Draw
    \/ HandleKeyEvent

SpecApp ==
    AppInit /\ [][AppNext]_vars

-----------------------------------------------------------------------------
(* Claims about App::handle_key_event                                      *)

\* C24: after any sequence of key events handled by App::handle_key_event,
\* for every schema (the Root alone included), column_selected is None or an
\* index i with 1 <= i < schema_columns.len().
C24_SelectionBelowRootAndInRange ==
    (u_pc # "idle" /\ u_tab = NoTab /\ u_app.column_selected.some)
        => /\ 1 <= u_app.column_selected.val
           /\ u_app.column_selected.val < Len(u_app.schema_columns)

\* C25: after every Up or Down key event handled on the Schema or Row Groups
\* tab, for every schema_tree_height (0 and 1 included), the scroll adjustment
\* completed without unsigned underflow, and a selected item i is inside the
\* window below the Root when schema_tree_height >= 2:
\* scroll_offset <= i - 1 <= scroll_offset + schema_tree_height - 2.
C25_ScrollKeepsSelectionVisible ==
    (u_tab = NoTab /\ u_pc # "events" /\ u_key \in {"Up", "Down"}
            /\ u_app.active_tab \in {0, 1})
        => /\ ~u_underflow
           /\ (u_app.column_selected.some /\ u_app.schema_tree_height >= 2)
               => /\ u_app.scroll_offset <= u_app.column_selected.val - 1
                  /\ u_app.column_selected.val - 1
                         <= u_app.scroll_offset + u_app.schema_tree_height - 2

-----------------------------------------------------------------------------
(* adjust_scroll_for_selection (utils.rs), SchemaTab (schema.rs) and       *)
(* RowGroupsTab (row_groups.rs).  The fields of the two tabs that the      *)
(* arithmetic can take out of the small range are usize byte sequences.   *)

NoUsize == [some |-> FALSE, val |-> Usize(0)]

SomeUsize(b) == [some |-> TRUE, val |-> b]

\* what a function of utils.rs returns, and whether an unsigned operation of
\* the call left the range of usize
Returns(scroll_offset, underflow) ==
    [val |-> scroll_offset, underflow |-> underflow]

\* the two tests of adjust_scroll_for_viewport, with scroll_offset = 0:
\* rel is selected_idx - 1 and last is scroll_offset + effective_viewport - 1
ViewportTests(rel, effective_viewport, last, checks) ==
    IF last.overflowed /\ checks THEN Returns(Usize(0), TRUE)
    ELSE IF LessBytes(last.val, rel.val)
    THEN IF UsizeSub(effective_viewport, Usize(1)).overflowed /\ checks
         THEN Returns(Usize(0), TRUE)
         ELSE Returns(SaturatingSub(rel.val, UsizeSub(effective_viewport, Usize(1)).val),
                      \/ rel.overflowed
                      \/ last.overflowed
                      \/ UsizeSub(effective_viewport, Usize(1)).overflowed)
    ELSE Returns(Usize(0), rel.overflowed \/ last.overflowed)

\* the body of the if let of adjust_scroll_for_viewport; the assignment under
\* selected_idx == 0 leaves scroll_offset at 0 and the body goes on
ViewportBody(rel, effective_viewport, checks) ==
    IF rel.overflowed /\ checks THEN Returns(Usize(0), TRUE)
    ELSE ViewportTests(rel, effective_viewport,
                       UsizeSub(UsizeAdd(Usize(0), effective_viewport).val, Usize(1)),
                       checks)

adjust_scroll_for_viewport(column_selected, viewport_height, checks) ==
    IF column_selected.some
    THEN ViewportBody(UsizeSub(column_selected.val, Usize(1)),
                      SaturatingSub(Usize(viewport_height), Usize(1)), checks)
    ELSE Returns(Usize(0), FALSE)

adjust_scroll_for_selection(column_selected, schema_tree_height, checks) ==
    IF column_selected.some
    THEN adjust_scroll_for_viewport(column_selected, schema_tree_height, checks)
    ELSE Returns(Usize(0), FALSE)

\* what an arm of on_event leaves: the tab, and whether an unsigned operation
\* left the range of usize
TabLeft(self, underflow) ==
    [tab |-> self, underflow |-> underflow]

\* idx + 1 < total_columns
HasNext(idx, total_columns) ==
    LessBytes(UsizeAdd(idx, Usize(1)).val, Usize(total_columns))

\* the if let of the Down arms: Some(idx + 1) below the end, Some(1) from None
SelectDown(self, total_columns, checks) ==
    IF ~self.column_selected.some
    THEN TabLeft([self EXCEPT !.column_selected = SomeUsize(Usize(1))], FALSE)
    ELSE IF UsizeAdd(self.column_selected.val, Usize(1)).overflowed /\ checks
    THEN TabLeft(self, TRUE)
    ELSE IF HasNext(self.column_selected.val, total_columns)
    THEN TabLeft([self EXCEPT !.column_selected =
                      SomeUsize(UsizeAdd(self.column_selected.val, Usize(1)).val)],
                 UsizeAdd(self.column_selected.val, Usize(1)).overflowed)
    ELSE TabLeft(self, UsizeAdd(self.column_selected.val, Usize(1)).overflowed)

\* the if let of the Up arm of SchemaTab: Some(idx - 1) if idx + 1 < total_columns
SchemaTabSelectUp(self, total_columns, checks) ==
    IF ~self.column_selected.some
    THEN TabLeft([self EXCEPT !.column_selected = SomeUsize(Usize(1))], FALSE)
    ELSE IF UsizeAdd(self.column_selected.val, Usize(1)).overflowed /\ checks
    THEN TabLeft(self, TRUE)
    ELSE IF HasNext(self.column_selected.val, total_columns)
    THEN IF UsizeSub(self.column_selected.val, Usize(1)).overflowed /\ checks
         THEN TabLeft(self, TRUE)
         ELSE TabLeft([self EXCEPT !.column_selected =
                           SomeUsize(UsizeSub(self.column_selected.val, Usize(1)).val)],
                      \/ UsizeAdd(self.column_selected.val, Usize(1)).overflowed
                      \/ UsizeSub(self.column_selected.val, Usize(1)).overflowed)
    ELSE TabLeft(self, UsizeAdd(self.column_selected.val, Usize(1)).overflowed)

\* the if let of the Up arm of RowGroupsTab: Some(idx - 1) if idx > 0
RowGroupsTabSelectUp(self) ==
    IF ~self.column_selected.some
    THEN TabLeft([self EXCEPT !.column_selected = SomeUsize(Usize(1))], FALSE)
    ELSE IF LessBytes(Usize(0), self.column_selected.val)
    THEN TabLeft([self EXCEPT !.column_selected =
                      SomeUsize(UsizeSub(self.column_selected.val, Usize(1)).val)], FALSE)
    ELSE TabLeft(self, FALSE)

\* SchemaTab: the call of adjust_scroll_for_selection after the selection; its
\* value is dropped
SchemaTabAdjust(selected, adjusted, checks) ==
    IF selected.underflow /\ checks THEN selected
    ELSE TabLeft(selected.tab, selected.underflow \/ adjusted.underflow)

\* RowGroupsTab: self.scroll_offset = adjust_scroll_for_selection(..)
RowGroupsTabAdjust(selected, adjusted, checks) ==
    IF selected.underflow /\ checks THEN selected
    ELSE IF adjusted.underflow /\ checks THEN TabLeft(selected.tab, TRUE)
    ELSE TabLeft([selected.tab EXCEPT !.scroll_offset = adjusted.val],
                 selected.underflow \/ adjusted.underflow)

\* (self.scroll_offset + amount).min(scrollable_items) of both tabs
Tab_scroll_down(self, amount, app, checks) ==
    IF UsizeAdd(self.scroll_offset, Usize(amount)).overflowed /\ checks
    THEN TabLeft(self, TRUE)
    ELSE TabLeft([self EXCEPT !.scroll_offset =
                      IF LessBytes(UsizeAdd(self.scroll_offset, Usize(amount)).val,
                                   SaturatingSub(Usize(Len(app.schema_columns)), Usize(1)))
                      THEN UsizeAdd(self.scroll_offset, Usize(amount)).val
                      ELSE SaturatingSub(Usize(Len(app.schema_columns)), Usize(1))],
                 UsizeAdd(self.scroll_offset, Usize(amount)).overflowed)

Tab_scroll_up(self, amount) ==
    TabLeft([self EXCEPT !.scroll_offset = SaturatingSub(self.scroll_offset, Usize(amount))],
            FALSE)

SchemaTab_on_event(self, code, app, checks) ==
    IF code = "Down"
    THEN SchemaTabAdjust(
             SelectDown(self, Len(self.schema_columns), checks),
             adjust_scroll_for_selection(
                 SelectDown(self, Len(self.schema_columns), checks).tab.column_selected,
                 app.schema_tree_height, checks),
             checks)
    ELSE IF code = "Up"
    THEN SchemaTabAdjust(
             SchemaTabSelectUp(self, Len(self.schema_columns), checks),
             adjust_scroll_for_selection(
                 SchemaTabSelectUp(self, Len(self.schema_columns), checks).tab.column_selected,
                 app.schema_tree_height, checks),
             checks)
    ELSE IF code = "PageDown" THEN Tab_scroll_down(self, 2, app, checks)
    ELSE IF code = "PageUp" THEN Tab_scroll_up(self, 2)
    ELSE TabLeft(self, FALSE)

\* the Left and Right arms of RowGroupsTab
SelectFirst(self) ==
    IF self.column_selected.some THEN self
    ELSE [self EXCEPT !.column_selected = SomeUsize(Usize(1))]

RowGroupsTab_on_event(self, code, app, checks) ==
    IF code \in {"Left", "Right"} THEN TabLeft(SelectFirst(self), FALSE)
    ELSE IF code = "Down"
    THEN RowGroupsTabAdjust(
             SelectDown(self, Len(app.schema_columns), checks),
             adjust_scroll_for_selection(
                 SelectDown(self, Len(app.schema_columns), checks).tab.column_selected,
                 app.schema_tree_height, checks),
             checks)
    ELSE IF code = "Up"
    THEN RowGroupsTabAdjust(
             RowGroupsTabSelectUp(self),
             adjust_scroll_for_selection(RowGroupsTabSelectUp(self).tab.column_selected,
                                         app.schema_tree_height, checks),
             checks)
    ELSE IF code = "PageDown" THEN Tab_scroll_down(self, 2, app, checks)
    ELSE IF code = "PageUp" THEN Tab_scroll_up(self, 2)
    ELSE IF code = "j"
    THEN TabLeft([self EXCEPT !.row_group_selected = self.row_group_selected + 1], FALSE)
    ELSE IF code = "k"
    THEN TabLeft(IF self.row_group_selected > 0
                 THEN [self EXCEPT !.row_group_selected = self.row_group_selected - 1]
                 ELSE self, FALSE)
    ELSE TabLeft(self, FALSE)

\* the App a tab is handed: its schema tree and the height of the last draw
AppOf(n, height) ==
    [App_run(SchemaColumnsOf(n)) EXCEPT !.schema_tree_height = height]

\* a SchemaTab after on_focus, holding the schema tree of the App
SchemaTab_on_focus(schema_columns) ==
    [kind |-> "SchemaTab", row_offset |-> 0, col_offset |-> 0, scroll_offset |-> Usize(0),
     column_selected |-> NoUsize, schema_columns |-> schema_columns]

RowGroupsTab_new ==
    [kind |-> "RowGroupsTab", row_offset |-> 0, col_offset |-> 0, scroll_offset |-> Usize(0),
     column_selected |-> NoUsize, row_group_selected |-> 0]

TabInit(kind) ==
    /\ \E n \in 1..MaxLines, height \in 0..MaxHeight :
        /\ u_app = AppOf(n, height)
        /\ u_tab = IF kind = "SchemaTab" THEN SchemaTab_on_focus(u_app.schema_columns)
                   ELSE RowGroupsTab_new
    /\ u_key = ""
    /\ u_underflow = FALSE
    /\ u_pc = "events"
    /\ overflow_checks \in BOOLEAN
    /\ CoreIdle
    /\ TabsIdle
    /\ KeymapIdle
    /\ SampleIdle

SchemaTabInit ==
    TabInit("SchemaTab")

RowGroupsTabInit ==
    TabInit("RowGroupsTab")

\* tab.on_event(key_event, app) on the SchemaTab
SchemaTabOnEvent ==
    /\ u_pc = "events"
    /\ u_tab.kind = "SchemaTab"
    /\ \E code \in KeyCodes :
        /\ u_tab' = SchemaTab_on_event(u_tab, code, u_app, overflow_checks).tab
        /\ u_underflow' = SchemaTab_on_event(u_tab, code, u_app, overflow_checks).underflow
        /\ u_key' = code
    /\ u_pc' = IF u_underflow' /\ overflow_checks THEN "panicked" ELSE "events"
    /\ UNCHANGED <<u_app, appRest>>

\* the scroll offsets from which PageUp is followed: the small ones, and the
\* ones a wrapped subtraction leaves just below usize::MAX
ScrollFollowed(scroll_offset) ==
    \/ ~LessBytes(Usize(MaxLines), scroll_offset)
    \/ LessBytes(UsizeSub(UsizeMax, Usize(MaxHeight)).val, scroll_offset)

\* tab.on_event(key_event, app) on the RowGroupsTab
RowGroupsTabOnEvent ==
    /\ u_pc = "events"
    /\ u_tab.kind = "RowGroupsTab"
    /\ \E code \in KeyCodes :
        /\ code = "j" => u_tab.row_group_selected < MaxRowGroups
        /\ code = "PageUp" => ScrollFollowed(u_tab.scroll_offset)
        /\ u_tab' = RowGroupsTab_on_event(u_tab, code, u_app, overflow_checks).tab
        /\ u_underflow' = RowGroupsTab_on_event(u_tab, code, u_app, overflow_checks).underflow
        /\ u_key' = code
    /\ u_pc' = IF u_underflow' /\ overflow_checks THEN "panicked" ELSE "events"
    /\ UNCHANGED <<u_app, appRest>>

SchemaTabNext ==
    SchemaTabOnEvent

RowGroupsTabNext ==
    RowGroupsTabOnEvent

SpecSchemaTab ==
    SchemaTabInit /\ [][SchemaTabNext]_vars

SpecRowGroupsTab ==
    RowGroupsTabInit /\ [][RowGroupsTabNext]_vars

-----------------------------------------------------------------------------
(* Claims about SchemaTab::on_event and RowGroupsTab::on_event             *)

\* the selection is Some(i) for the small index i
Selects(tab, i) ==
    tab.column_selected.some /\ tab.column_selected.val = Usize(i)

\* C26: in SchemaTab::on_event, after any sequence of Up and Down key events
\* column_selected is None or a valid index into schema_columns; an Up event
\* at selection i with 1 <= i < schema_columns.len() (the last item included)
\* sets the selection to i - 1; an Up event at selection 0 does not underflow.
C26_SchemaTabUpDown ==
    [][(u_tab.kind = "SchemaTab" /\ u_key' \in {"Up", "Down"})
        => /\ u_tab'.column_selected.some
                => LessBytes(u_tab'.column_selected.val, Usize(Len(u_tab'.schema_columns)))
           /\ \A i \in 1..(Len(u_tab.schema_columns) - 1) :
                (u_key' = "Up" /\ Selects(u_tab, i)) => Selects(u_tab', i - 1)
           /\ (u_key' = "Up" /\ Selects(u_tab, 0)) => ~u_underflow']_vars

\* C27: in RowGroupsTab::on_event, after any sequence of Up and Down key
\* events with schema_tree_height >= 2, scroll_offset was computed without
\* unsigned underflow, is 0 when the Root (index 0) is selected, and satisfies
\* scroll_offset <= i - 1 <= scroll_offset + schema_tree_height - 2 when item
\* i >= 1 is selected.
C27_RowGroupsTabScroll ==
    (u_tab.kind = "RowGroupsTab" /\ u_key \in {"Up", "Down"} /\ u_app.schema_tree_height >= 2)
        => /\ ~u_underflow
           /\ Selects(u_tab, 0) => u_tab.scroll_offset = Usize(0)
           /\ \A i \in 1..MaxLines :
                Selects(u_tab, i)
                    => /\ ~LessBytes(Usize(i - 1), u_tab.scroll_offset)
                       /\ ~LessBytes(UsizeAdd(u_tab.scroll_offset,
                                              Usize(u_app.schema_tree_height - 2)).val,
                                     Usize(i - 1))

-----------------------------------------------------------------------------
(* Keymap, default_keybindings, parse_keycode and build_keymap (config.rs) *)
(* A KeyCode is written as the name parse_keycode accepts for it; a        *)
(* HashMap is a function on its keys.                                      *)

Actions ==
    {"Up", "Down", "Left", "Right", "PageUp", "PageDown", "Quit", "Reset", "NextTab",
     "PrevTab"}

\* the bindings of default_keybindings
DefaultBindings ==
    [code \in {"k", "j", "h", "l", "u", "d", "q", "Esc", "Tab", "BackTab"} |->
        IF code = "k" THEN "Up"
        ELSE IF code = "j" THEN "Down"
        ELSE IF code = "h" THEN "Left"
        ELSE IF code = "l" THEN "Right"
        ELSE IF code = "u" THEN "PageUp"
        ELSE IF code = "d" THEN "PageDown"
        ELSE IF code = "q" THEN "Quit"
        ELSE IF code = "Esc" THEN "Reset"
        ELSE IF code = "Tab" THEN "NextTab"
        ELSE "PrevTab"]

\* key names of one character, of the named keys, and F followed by a u8
SingleChars == {"j", "k", "h", "l", "u", "d", "q", "x", "y"}

NamedKeys ==
    {"Backspace", "Enter", "Left", "Right", "Up", "Down", "Home", "End", "PageUp",
     "PageDown", "Tab", "BackTab", "Delete", "Insert"}

FunctionKeys == {"F5", "F12"}

parse_keycode(s) ==
    IF s \in SingleChars THEN [ok |-> TRUE, code |-> s]
    ELSE IF s \in NamedKeys THEN [ok |-> TRUE, code |-> s]
    ELSE IF s \in {"Esc", "Escape"} THEN [ok |-> TRUE, code |-> "Esc"]
    ELSE IF s \in FunctionKeys THEN [ok |-> TRUE, code |-> s]
    ELSE [ok |-> FALSE, code |-> ""]

\* bindings.retain(|_, &mut a| a != action)
Retain(bindings, action) ==
    [code \in {c \in DOMAIN bindings : bindings[c] # action} |-> bindings[code]]

\* bindings.insert(code, action)
Insert(bindings, code, action) ==
    [c \in DOMAIN bindings \cup {code} |-> IF c = code THEN action ELSE bindings[c]]

\* the body of the for loop of build_keymap
Bind(bindings, key_str, action) ==
    IF parse_keycode(key_str).ok
    THEN Insert(Retain(bindings, action), parse_keycode(key_str).code, action)
    ELSE bindings

\* the maps that collecting (action, code) over the bindings can give: of the
\* codes bound to an action, the one the iteration reaches last stays; there
\* is one such map when no two codes are bound to the same action
ReverseMaps(bindings) ==
    IF \A c, e \in DOMAIN bindings : bindings[c] = bindings[e] => c = e
    THEN {[a \in {bindings[c] : c \in DOMAIN bindings} |->
              CHOOSE c \in DOMAIN bindings : bindings[c] = a]}
    ELSE {reverse \in [{bindings[c] : c \in DOMAIN bindings} -> DOMAIN bindings] :
              \A a \in DOMAIN reverse : bindings[reverse[a]] = a}

NoKey == [some |-> FALSE, val |-> ""]

SomeKey(x) == [some |-> TRUE, val |-> x]

get_action(self, code) ==
    IF code \in DOMAIN self.bindings THEN SomeKey(self.bindings[code]) ELSE NoKey

get_keycode(self, action) ==
    IF action \in DOMAIN self.reverse THEN SomeKey(self.reverse[action]) ELSE NoKey

\* the user's file binds up to MaxBindings key names
MaxBindings == 2

\* the key names and the actions of the user's file
KeyNames == {"j", "x", "Escape", "F5", "F300"}

UserActions == {"Up", "Down", "Quit", "Reset"}

\* the entries of a HashMap<String, Action> in an order of iteration: no key
\* name twice
RawConfigs ==
    UNION {{raw \in [1..n -> [key_str : KeyNames, action : UserActions]] :
                \A i, j \in 1..n : raw[i].key_str = raw[j].key_str => i = j} :
           n \in 0..MaxBindings}

KeymapInit ==
    /\ k_config \in RawConfigs
    /\ k_raw = k_config
    /\ k_bindings = DefaultBindings
    /\ k_keymap = NoKeymap
    /\ k_pc = "loop"
    /\ overflow_checks = FALSE
    /\ CoreIdle
    /\ TabsIdle
    /\ AppIdle
    /\ SampleIdle

keymapRest == <<k_config, overflow_checks, coreVars, tabsVars, appVars, sampleVars>>

\* one iteration of for (key_str, action) in raw.keybindings
BindKey ==
    /\ k_pc = "loop"
    /\ k_raw # <<>>
    /\ k_bindings' = Bind(k_bindings, Head(k_raw).key_str, Head(k_raw).action)
    /\ k_raw' = Tail(k_raw)
    /\ UNCHANGED <<k_keymap, k_pc, keymapRest>>

\* let reverse = ..collect(); Keymap { bindings, reverse }
ReturnKeymap ==
    /\ k_pc = "loop"
    /\ k_raw = <<>>
    /\ \E reverse \in ReverseMaps(k_bindings) :
        k_keymap' = [bindings |-> k_bindings, reverse |-> reverse]
    /\ k_pc' = "returned"
    /\ UNCHANGED <<k_raw, k_bindings, keymapRest>>

KeymapNext ==
    \/ BindKey
    \/ ReturnKeymap

SpecKeymap ==
    KeymapInit /\ [][KeymapNext]_vars

-----------------------------------------------------------------------------
(* Claims about build_keymap                                               *)

AllNamesParse ==
    \A i \in 1..Len(k_config) : parse_keycode(k_config[i].key_str).ok

KeysOf(self, action) ==
    {code \in DOMAIN self.bindings : self.bindings[code] = action}

\* C28: for every set of user keybindings whose key names parse, the Keymap
\* returned by build_keymap binds every Action to exactly one key and its
\* reverse map agrees with its bindings: for every Action a,
\* get_keycode(a) = Some(k) and get_action(k) = Some(a).
C28_EveryActionHasOneKey ==
    (k_pc = "returned" /\ AllNamesParse)
        => \A a \in Actions :
            /\ Cardinality(KeysOf(k_keymap, a)) = 1
            /\ get_keycode(k_keymap, a).some
            /\ get_action(k_keymap, get_keycode(k_keymap, a).val) = SomeKey(a)

-----------------------------------------------------------------------------
(* ParquetSampleData::read_sample_data (file/sample_data.rs)               *)
(* The rows of the file are numbered from 1; a record batch is a range of  *)
(* them with one array per top-level field of the schema.                  *)

MAX_ROWS == 100

Leaf(name, data_type) ==
    [name |-> name, data_type |-> data_type, fields |-> <<>>]

Struct(name, fields) ==
    [name |-> name, data_type |-> "Struct", fields |-> fields]

RECURSIVE flatten_field(_, _)
RECURSIVE FlattenFields(_, _)
\* the for loops over schema.fields() and over the nested fields
FlattenFields(fields, prefix) ==
    IF Len(fields) = 0 THEN <<>>
    ELSE flatten_field(Head(fields), prefix) \o FlattenFields(Tail(fields), prefix)

flatten_field(field, prefix) ==
    IF field.data_type = "Struct"
    THEN FlattenFields(field.fields,
                       IF prefix = "" THEN field.name ELSE prefix \o "." \o field.name)
    ELSE <<IF prefix = "" THEN field.name ELSE prefix \o "." \o field.name>>

flatten_schema_columns(schema) ==
    FlattenFields(schema, "")

\* the value of the file in a column at a row: integers count the rows, every
\* third string is null, any other array goes through the last arm
extract_value_from_array(field, row) ==
    IF field.data_type = "Utf8" /\ row % 3 = 0 THEN "NULL"
    ELSE IF field.data_type = "Int32" THEN NatToString(row)
    ELSE IF field.data_type = "Utf8" THEN "r" \o NatToString(row)
    ELSE "O StructArray"

\* the rows first .. first + num_rows - 1, one array per top-level field
Batch(schema, first, num_rows) ==
    [columns |-> schema, first |-> first, num_rows |-> num_rows]

\* batch.slice(offset, length)
Slice(batch, offset, length) ==
    [batch EXCEPT !.first = batch.first + offset, !.num_rows = length]

extract_rows_from_batch(batch) ==
    [row_idx \in 1..batch.num_rows |->
        [col_idx \in 1..Len(batch.columns) |->
            extract_value_from_array(batch.columns[col_idx], batch.first + row_idx - 1)]]

\* the whole batch in place of the rows that are still needed
needed_rowsWhole(total_rows_read, batch_rows) ==
    batch_rows

\* let needed_rows = MAX_ROWS - total_rows_read
needed_rows(total_rows_read, batch_rows) ==
    MAX_ROWS - total_rows_read

\* the reader yields up to MaxBatches record batches
MaxBatches == 3

BatchSizes == {1, 40, 60, 99, 101}

SampleSchemas ==
    {<<Leaf("a", "Int32")>>,
     <<Leaf("a", "Int32"), Leaf("b", "Utf8")>>,
     <<Leaf("a", "Int32"), Struct("s", <<Leaf("x", "Int32"), Leaf("y", "Utf8")>>)>>,
     <<Struct("s", <<Struct("t", <<Leaf("x", "Int32")>>), Leaf("y", "Utf8")>>)>>}

RECURSIVE RowsBefore(_, _)
\* the rows of the batches before batch k
RowsBefore(batches, k) ==
    IF k <= 1 THEN 0 ELSE RowsBefore(batches, k - 1) + batches[k - 1]

SampleInit ==
    /\ r_schema \in SampleSchemas
    /\ r_batches \in UNION {[1..n -> BatchSizes] : n \in 0..MaxBatches}
    /\ r_next = 1
    /\ r_flattened_columns = <<>>
    /\ r_all_rows = <<>>
    /\ r_total_rows_read = 0
    /\ r_result = NoSample
    /\ r_pc = "open"
    /\ overflow_checks = FALSE
    /\ CoreIdle
    /\ TabsIdle
    /\ AppIdle
    /\ KeymapIdle

sampleRest == <<r_schema, r_batches, overflow_checks, coreVars, tabsVars, appVars, keymapVars>>

SampleErr(call) ==
    /\ r_result' = [kind |-> "err", data |-> <<>>, error |-> call]
    /\ r_pc' = "returned"

\* File::open(file_path)?, ParquetRecordBatchReaderBuilder::try_new(file)?,
\* flatten_schema_columns(&schema) and builder.build()?
BuildReader ==
    /\ r_pc = "open"
    /\ \E failed \in {"", "File::open", "try_new", "build"} :
        IF failed = ""
        THEN /\ r_flattened_columns' = flatten_schema_columns(r_schema)
             /\ r_pc' = "loop"
             /\ UNCHANGED r_result
        ELSE /\ SampleErr(failed)
             /\ UNCHANGED r_flattened_columns
    /\ UNCHANGED <<r_next, r_all_rows, r_total_rows_read, sampleRest>>

\* one iteration of while let Some(batch_result) = reader.next()
ReaderNext ==
    /\ r_pc = "loop"
    /\ r_next <= Len(r_batches)
    /\ \E ok \in BOOLEAN :
        IF ~ok
        THEN /\ SampleErr("batch")
             /\ UNCHANGED <<r_all_rows, r_total_rows_read>>
        ELSE IF r_total_rows_read + r_batches[r_next] > MAX_ROWS
        THEN /\ r_all_rows' = r_all_rows \o extract_rows_from_batch(
                    Slice(Batch(r_schema, RowsBefore(r_batches, r_next) + 1, r_batches[r_next]),
                          0, needed_rows(r_total_rows_read, r_batches[r_next])))
             /\ r_pc' = "return"
             /\ UNCHANGED <<r_total_rows_read, r_result>>
        ELSE /\ r_all_rows' = r_all_rows \o extract_rows_from_batch(
                    Batch(r_schema, RowsBefore(r_batches, r_next) + 1, r_batches[r_next]))
             /\ r_total_rows_read' = r_total_rows_read + r_batches[r_next]
             /\ r_pc' = IF r_total_rows_read' >= MAX_ROWS THEN "return" ELSE "loop"
             /\ UNCHANGED r_result
    /\ r_next' = r_next + 1
    /\ UNCHANGED <<r_flattened_columns, sampleRest>>

\* reader.next() is None
ReaderEnd ==
    /\ r_pc = "loop"
    /\ r_next > Len(r_batches)
    /\ r_pc' = "return"
    /\ UNCHANGED <<r_next, r_flattened_columns, r_all_rows, r_total_rows_read, r_result,
                   sampleRest>>

\* Ok(ParquetSampleData { total_columns, flattened_columns, rows })
ReturnSample ==
    /\ r_pc = "return"
    /\ r_result' = [kind |-> "ok",
                    data |-> [total_columns |-> Len(r_flattened_columns),
                              flattened_columns |-> r_flattened_columns,
                              rows |-> r_all_rows],
                    error |-> ""]
    /\ r_pc' = "returned"
    /\ UNCHANGED <<r_next, r_flattened_columns, r_all_rows, r_total_rows_read, sampleRest>>

SampleNext ==
    \/ BuildReader
    \/ ReaderNext
    \/ ReaderEnd
    \/ ReturnSample

SpecSample ==
    SampleInit /\ [][SampleNext]_vars

-----------------------------------------------------------------------------
(* Claims about read_sample_data                                           *)

\* N, the rows of the file
TotalRows ==
    RowsBefore(r_batches, Len(r_batches) + 1)

\* the first n rows of the file, in file order
FirstRows(n) ==
    extract_rows_from_batch(Batch(r_schema, 1, n))

\* C21: read_sample_data returns exactly the first min(100, N) rows of the
\* file in file order, N being the rows of the file, for every partition of
\* the rows into record batches (a batch that straddles the 100-row limit
\* included); it never returns more than 100 rows.
C21_FirstHundredRows ==
    r_result.kind = "ok"
        => /\ r_result.data.rows = FirstRows(Min(MAX_ROWS, TotalRows))
           /\ Len(r_result.data.rows) <= MAX_ROWS

\* a file of 120 rows in two batches of 60, the second of which straddles the
\* limit, was read to the end and 100 rows were returned
C21_Witness ==
    /\ r_result.kind = "ok"
    /\ r_batches = <<60, 60>>
    /\ Len(r_result.data.rows) = 100
    /\ r_result.data.rows[100][1] = "100"

\* C29: in every ParquetSampleData returned by read_sample_data every row has
\* exactly total_columns cells and total_columns = flattened_columns.len(),
\* for schemas with struct columns as well as flat ones.
C29_RowsHaveTotalColumnsCells ==
    r_result.kind = "ok"
        => /\ r_result.data.total_columns = Len(r_result.data.flattened_columns)
           /\ \A i \in 1..Len(r_result.data.rows) :
                Len(r_result.data.rows[i]) = r_result.data.total_columns

====
